---- MODULE Spec2Model ----
(***************************************************************************)
(* Model of simple-portfolio-tracker: the portfolio merge                  *)
(* (core/models.py), the classification store (core/persistence.py), the   *)
(* allocation calculator (core/calculator.py) and the main-window handlers *)
(* that drive them (ui/main_window.py, ui/instrument_config_tab.py,        *)
(* ui/portfolio_tab.py), the currency tab (ui/currency_tab.py) and the     *)
(* parsers of imported files (core/data_parser.py, core/ocr_parser.py).    *)
(*                                                                         *)
(* Numbers: Python floats are modelled as exact rationals [n, d] kept in   *)
(* lowest terms; money amounts and the numeric holding fields are whole    *)
(* units, target allocations are fractions n/100.                          *)
(***************************************************************************)
EXTENDS Integers, Sequences, FiniteSets, TLC

VARIABLES
    holdings,           \* calculator.portfolio.holdings (list of Holding)
    free_cash,          \* calculator.portfolio.free_cash
    mappings,           \* mappings_store.mappings (instrument -> mapping dict)
    exchange_rates,     \* settings_store.settings['exchange_rates']
    portfolio_file,     \* contents of portfolio.json
    settings_free_cash, \* settings_store.settings['free_cash']
    allocations,        \* last list returned by calculate_allocations
    stats_by_type,      \* last list returned by calculate_stats_by_type
    stats_by_region,    \* last list returned by calculate_stats_by_region
    lastOp,             \* name of the handler that ran last
    prev_holdings,      \* portfolio.holdings when that handler was entered
    incoming,           \* the list of holdings that handler was given
    ops,                \* number of handler calls made so far
    stats_detailed,     \* last list returned by calculate_stats_detailed
    prev_mappings,      \* mappings_store.mappings when that handler was entered
    currencies,         \* settings_store.settings['currencies']
    rates_last_updated, \* the rates-last-updated date string of the settings
    fetch_thread,       \* CurrencyTab._fetch_thread (0 for None, else a thread id)
    threads,            \* the RatesFetchThread objects created so far
    events,             \* signals queued for the main thread, oldest first
    shown_error,        \* text of the last warning or error box shown
    prev_settings,      \* rates, currencies and date when that handler was entered
    export_file,        \* contents of the snapshot file written by on_save_data
    outcome,            \* how the last import, load, reset or start-up ended
    parser_input,       \* the argument of the parser function called last
    parser_result       \* what that call returned, or that it raised

vars == <<holdings, free_cash, mappings, exchange_rates, portfolio_file,
          settings_free_cash, allocations, stats_by_type, stats_by_region,
          lastOp, prev_holdings, incoming, ops, stats_detailed, prev_mappings,
          currencies, rates_last_updated, fetch_thread, threads, events,
          shown_error, prev_settings, export_file, outcome, parser_input,
          parser_result>>

\* The state of the currency tab and of the settings it edits.
rateVars == <<currencies, rates_last_updated, fetch_thread, threads, events,
              shown_error, prev_settings>>

\* The snapshot file of Save Data and the outcome of the last attempt.
sessionVars == <<export_file, outcome>>

\* The argument and the result of a parser function called on its own.
parserVars == <<parser_input, parser_result>>

-----------------------------------------------------------------------------
(* Bounds *)

MaxHoldings == 2
MaxIncoming == 2
MaxOps == 4

-----------------------------------------------------------------------------
(* Enumerations, in declaration order *)

AssetType == <<"Equity", "Bonds", "Commodity", "Thematic", "REIT", "Unassigned">>

Region == <<"US", "EU", "EM", "Global", "Non", "Unassigned">>

Range(s) == {s[i] : i \in 1..Len(s)}

SeqsUpTo(S, n) == UNION {[1..k -> S] : k \in 0..n}

-----------------------------------------------------------------------------
(* Exact rational arithmetic standing for Python float arithmetic *)

Abs(x) == IF x < 0 THEN -x ELSE x

RECURSIVE Gcd(_, _)
Gcd(a, b) == IF b = 0 THEN a ELSE Gcd(b, a % b)

Rat(n, d) ==
    LET g == Gcd(Abs(n), Abs(d))
        s == IF d < 0 THEN -1 ELSE 1
    IN [n |-> (s * n) \div g, d |-> (s * d) \div g]

RZero == [n |-> 0, d |-> 1]
ROne == [n |-> 1, d |-> 1]
RInt(i) == [n |-> i, d |-> 1]
RAdd(a, b) == Rat(a.n * b.d + b.n * a.d, a.d * b.d)
RSub(a, b) == Rat(a.n * b.d - b.n * a.d, a.d * b.d)
RDiv(a, b) == Rat(a.n * b.d, a.d * b.n)
RPos(a) == a.n > 0

RECURSIVE RSum(_)
RSum(s) == IF s = <<>> THEN RZero ELSE RAdd(Head(s), RSum(Tail(s)))

-----------------------------------------------------------------------------
(* Input domains *)

Instruments == {"A", "B"}

\* The numeric columns of one imported row.
Quote(q) ==
    CASE q = 1 -> [position |-> 10, last_price |-> 10, change_pct |-> 1,
                   cost_basis |-> 90, market_value |-> 100, avg_price |-> 9,
                   daily_pnl |-> 1, unrealized_pnl |-> 10]
      [] q = 2 -> [position |-> 5, last_price |-> 10, change_pct |-> -2,
                   cost_basis |-> 60, market_value |-> 50, avg_price |-> 12,
                   daily_pnl |-> -1, unrealized_pnl |-> -10]
      [] q = 3 -> [position |-> -10, last_price |-> 10, change_pct |-> 0,
                   cost_basis |-> -90, market_value |-> -100, avg_price |-> 9,
                   daily_pnl |-> 0, unrealized_pnl |-> -10]

\* (asset_type, region, target_allocation in percent, currency) as a user or
\* a stored mapping may have set them.
Classifications ==
    { [asset_type |-> "Unassigned", region |-> "Unassigned", target_allocation |-> 0, currency |-> "EUR"],
      [asset_type |-> "Equity", region |-> "US", target_allocation |-> 40, currency |-> "USD"],
      [asset_type |-> "Bonds", region |-> "Unassigned", target_allocation |-> -5, currency |-> "EUR"],
      [asset_type |-> "Unassigned", region |-> "EU", target_allocation |-> 60, currency |-> "GBP"] }

-----------------------------------------------------------------------------
(* core/models.py *)

\* Holding(...) with the dataclass defaults for the classification fields.
Holding(instrument, q) ==
    [instrument |-> instrument,
     position |-> Quote(q).position,
     last_price |-> Quote(q).last_price,
     change_pct |-> Quote(q).change_pct,
     cost_basis |-> Quote(q).cost_basis,
     market_value |-> Quote(q).market_value,
     avg_price |-> Quote(q).avg_price,
     daily_pnl |-> Quote(q).daily_pnl,
     unrealized_pnl |-> Quote(q).unrealized_pnl,
     asset_type |-> "Unassigned",
     region |-> "Unassigned",
     target_allocation |-> 0,
     currency |-> "EUR"]

\* A holding whose classification fields have been assigned.
Classified(h, c) ==
    [h EXCEPT !.asset_type = c.asset_type, !.region = c.region,
              !.target_allocation = c.target_allocation, !.currency = c.currency]

Classification(h) ==
    [asset_type |-> h.asset_type, region |-> h.region,
     target_allocation |-> h.target_allocation, currency |-> h.currency]

InstrumentsOf(hs) == {hs[i].instrument : i \in 1..Len(hs)}

\* existing_instruments = {h.instrument: i for i, h in enumerate(self.holdings)}
\* (a later duplicate overwrites an earlier one)
ExistingInstruments(hs) ==
    [inst \in InstrumentsOf(hs) |->
        CHOOSE i \in 1..Len(hs) :
            /\ hs[i].instrument = inst
            /\ \A j \in 1..Len(hs) : hs[j].instrument = inst => j <= i]

\* Faulty variants of the update branch (currency taken from the incoming
\* record; incoming classification preferred; target kept when >= 0).
MergeHolding_CurrencyFromNew(old_h, new_h) ==
    [new_h EXCEPT
        !.asset_type = IF old_h.asset_type # "Unassigned" THEN old_h.asset_type ELSE new_h.asset_type,
        !.region = IF old_h.region # "Unassigned" THEN old_h.region ELSE new_h.region,
        !.target_allocation = IF old_h.target_allocation > 0 THEN old_h.target_allocation ELSE new_h.target_allocation]

MergeHolding_ClassFromNew(old_h, new_h) ==
    [new_h EXCEPT
        !.asset_type = IF new_h.asset_type # "Unassigned" THEN new_h.asset_type ELSE old_h.asset_type,
        !.region = IF new_h.region # "Unassigned" THEN new_h.region ELSE old_h.region,
        !.target_allocation = IF old_h.target_allocation > 0 THEN old_h.target_allocation ELSE new_h.target_allocation,
        !.currency = old_h.currency]

MergeHolding_TargetNonNegative(old_h, new_h) ==
    [new_h EXCEPT
        !.asset_type = IF old_h.asset_type # "Unassigned" THEN old_h.asset_type ELSE new_h.asset_type,
        !.region = IF old_h.region # "Unassigned" THEN old_h.region ELSE new_h.region,
        !.target_allocation = IF old_h.target_allocation >= 0 THEN old_h.target_allocation ELSE new_h.target_allocation,
        !.currency = old_h.currency]

\* The update branch of add_or_update_holdings: the incoming record with
\* the four classification fields reconciled against the stored record.
MergeHolding(old_h, new_h) ==
    [new_h EXCEPT
        !.asset_type = IF old_h.asset_type # "Unassigned" THEN old_h.asset_type ELSE new_h.asset_type,
        !.region = IF old_h.region # "Unassigned" THEN old_h.region ELSE new_h.region,
        !.target_allocation = IF old_h.target_allocation > 0 THEN old_h.target_allocation ELSE new_h.target_allocation,
        !.currency = old_h.currency]

\* Faulty variant of the loop: a new instrument is inserted at the front.
RECURSIVE AddOrUpdateLoop_Prepend(_, _, _)
AddOrUpdateLoop_Prepend(hs, idx, new_holdings) ==
    IF new_holdings = <<>> THEN hs
    ELSE LET new_h == Head(new_holdings) IN
         IF new_h.instrument \in DOMAIN idx
         THEN AddOrUpdateLoop_Prepend(
                  [hs EXCEPT ![idx[new_h.instrument]] = MergeHolding(hs[idx[new_h.instrument]], new_h)],
                  idx, Tail(new_holdings))
         ELSE AddOrUpdateLoop_Prepend(<<new_h>> \o hs, idx, Tail(new_holdings))

\* for new_h in new_holdings: ... (the index is built once, before the loop)
RECURSIVE AddOrUpdateLoop(_, _, _)
AddOrUpdateLoop(hs, idx, new_holdings) ==
    IF new_holdings = <<>> THEN hs
    ELSE LET new_h == Head(new_holdings) IN
         IF new_h.instrument \in DOMAIN idx
         THEN AddOrUpdateLoop(
                  [hs EXCEPT ![idx[new_h.instrument]] = MergeHolding(hs[idx[new_h.instrument]], new_h)],
                  idx, Tail(new_holdings))
         ELSE AddOrUpdateLoop(Append(hs, new_h), idx, Tail(new_holdings))

\* Portfolio.add_or_update_holdings
AddOrUpdateHoldings(hs, new_holdings) ==
    AddOrUpdateLoop(hs, ExistingInstruments(hs), new_holdings)

-----------------------------------------------------------------------------
(* core/persistence.py: defaults of the stores *)

EmptyMappings == [inst \in {} |-> inst]

\* SettingsStore.DEFAULT_EXCHANGE_RATES
DEFAULT_EXCHANGE_RATES ==
    [c \in {"EUR", "USD", "GBP", "CNH"} |->
        CASE c = "EUR" -> Rat(1, 1)
          [] c = "USD" -> Rat(109, 100)
          [] c = "GBP" -> Rat(85, 100)
          [] c = "CNH" -> Rat(769, 100)]

\* A file that does not exist (no field of a written file).
NoFile == [exists |-> FALSE]

\* SettingsStore.DEFAULT_CURRENCIES
DEFAULT_CURRENCIES == <<"EUR", "USD", "GBP", "CNH">>

\* The settings the currency tab shows and edits.
SettingsNow ==
    [exchange_rates |-> exchange_rates, currencies |-> currencies,
     rates_last_updated |-> rates_last_updated]

\* SettingsStore.__init__ and CurrencyTab.__init__ when no settings file
\* exists: default currencies, no date, no fetch thread.
InitCurrencyTab ==
    /\ currencies = DEFAULT_CURRENCIES
    /\ rates_last_updated = ""
    /\ fetch_thread = 0
    /\ threads = <<>>
    /\ events = <<>>
    /\ shown_error = ""
    /\ prev_settings = SettingsNow

\* No snapshot has been exported and nothing has been attempted yet.
InitSession ==
    /\ export_file = NoFile
    /\ outcome = "none"

\* No parser function has been called.
InitParser ==
    /\ parser_input = <<>>
    /\ parser_result = <<>>

\* Faulty variant: an entry already stored is not overwritten.
SetMapping_KeepExisting(m, instrument, asset_type, region, target, currency) ==
    m @@ (instrument :> [asset_type |-> asset_type, region |-> region,
                         target_allocation |-> target, currency |-> currency])

\* MappingsStore.set_mapping (the dict it stores under the instrument)
SetMapping(m, instrument, asset_type, region, target, currency) ==
    (instrument :> [asset_type |-> asset_type, region |-> region,
                    target_allocation |-> target, currency |-> currency]) @@ m

\* The body of the loop of apply_mappings for one holding.  The four
\* assignments run in order inside one try block: an enum value that does
\* not parse raises ValueError, which ends the block and keeps what was
\* already assigned.
ApplyMapping(m, h) ==
    IF h.instrument \notin DOMAIN m THEN h
    ELSE LET mapping == m[h.instrument] IN
         IF mapping.asset_type \notin Range(AssetType) THEN h
         ELSE IF mapping.region \notin Range(Region)
              THEN [h EXCEPT !.asset_type = mapping.asset_type]
              ELSE [h EXCEPT !.asset_type = mapping.asset_type,
                             !.region = mapping.region,
                             !.target_allocation = mapping.target_allocation,
                             !.currency = mapping.currency]

\* MappingsStore.apply_mappings
ApplyMappings(m, hs) == [i \in 1..Len(hs) |-> ApplyMapping(m, hs[i])]

\* Faulty variant: every holding is written, at the baseline or not.
RECURSIVE UpdateFromHoldings_Unconditional(_, _)
UpdateFromHoldings_Unconditional(m, hs) ==
    IF hs = <<>> THEN m
    ELSE LET holding == Head(hs) IN
         UpdateFromHoldings_Unconditional(
             SetMapping(m, holding.instrument, holding.asset_type, holding.region,
                        holding.target_allocation, holding.currency),
             Tail(hs))

\* MappingsStore.update_from_holdings
RECURSIVE UpdateFromHoldings(_, _)
UpdateFromHoldings(m, hs) ==
    IF hs = <<>> THEN m
    ELSE LET holding == Head(hs) IN
         IF \/ holding.asset_type # "Unassigned"
            \/ holding.region # "Unassigned"
            \/ holding.currency # "EUR"
         THEN UpdateFromHoldings(
                  SetMapping(m, holding.instrument, holding.asset_type, holding.region,
                             holding.target_allocation, holding.currency),
                  Tail(hs))
         ELSE UpdateFromHoldings(m, Tail(hs))

\* Holding.to_dict
ToDict(h) ==
    [instrument |-> h.instrument, position |-> h.position, last_price |-> h.last_price,
     change_pct |-> h.change_pct, cost_basis |-> h.cost_basis,
     market_value |-> h.market_value, avg_price |-> h.avg_price,
     daily_pnl |-> h.daily_pnl, unrealized_pnl |-> h.unrealized_pnl,
     asset_type |-> h.asset_type, region |-> h.region,
     target_allocation |-> h.target_allocation, currency |-> h.currency]

\* Holding.from_dict for a dict that has every key: the enum constructors
\* raise ValueError for a value that is no member.
FromDictRaises(data) ==
    data.asset_type \notin Range(AssetType) \/ data.region \notin Range(Region)

FromDict(data) ==
    [instrument |-> data.instrument, position |-> data.position,
     last_price |-> data.last_price, change_pct |-> data.change_pct,
     cost_basis |-> data.cost_basis, market_value |-> data.market_value,
     avg_price |-> data.avg_price, daily_pnl |-> data.daily_pnl,
     unrealized_pnl |-> data.unrealized_pnl,
     asset_type |-> data.asset_type, region |-> data.region,
     target_allocation |-> data.target_allocation, currency |-> data.currency]

\* PortfolioStore.save (the data written to portfolio.json)
PortfolioData(hs, cash) ==
    [holdings |-> [i \in 1..Len(hs) |-> ToDict(hs[i])], free_cash |-> cash]

-----------------------------------------------------------------------------
(* core/persistence.py: currency conversion *)

\* SettingsStore.get_exchange_rate
GetExchangeRate(rates, currency) ==
    IF currency = "EUR" THEN ROne
    ELSE IF currency \in DOMAIN rates THEN rates[currency] ELSE ROne

\* Faulty variant: the zero-rate test is missing.
ConvertToEur_NoZeroGuard(rates, amount, currency) ==
    RDiv(amount, GetExchangeRate(rates, currency))

\* SettingsStore.convert_to_eur
ConvertToEur(rates, amount, currency) ==
    LET rate == GetExchangeRate(rates, currency) IN
    IF rate = RZero THEN amount ELSE RDiv(amount, rate)

\* SettingsStore.set_exchange_rate
SetExchangeRate(rates, currency, rate) ==
    [c \in DOMAIN rates \cup {currency} |-> IF c = currency THEN rate ELSE rates[c]]

\* for currency, rate in new_rates.items(): set_exchange_rate(currency, rate)
RECURSIVE SetExchangeRates(_, _)
SetExchangeRates(rates, new_rates) ==
    IF DOMAIN new_rates = {} THEN rates
    ELSE LET currency == CHOOSE c \in DOMAIN new_rates : TRUE IN
         SetExchangeRates(SetExchangeRate(rates, currency, new_rates[currency]),
                          [c \in DOMAIN new_rates \ {currency} |-> new_rates[c]])

\* SettingsStore.set_currencies
SetCurrencies(cs) == IF "EUR" \notin Range(cs) THEN <<"EUR">> \o cs ELSE cs

\* SettingsStore.add_currency
AddCurrency(cs, currency) ==
    IF currency \notin Range(cs) THEN SetCurrencies(Append(cs, currency)) ELSE cs

\* SettingsStore.update_exchange_rates: the table it is given becomes the
\* stored table.
UpdateExchangeRates(rates, new_rates) == new_rates

\* SettingsStore.set_rates_last_updated
SetRatesLastUpdated(date_str) == date_str

-----------------------------------------------------------------------------
(* core/rates_fetcher.py *)

EmptyRates == [c \in {} |-> RZero]

\* The rate and the dates a response of the rate service carries in the model.
FetchedRate == Rat(120, 100)
FetchedDates == {"", "2024-11-25"}

\* The messages fetch_rates returns for the failures it handles.
FetchErrors ==
    {"Request timed out. Check your internet connection.",
     "Invalid response from rate service."}

\* The codes the rate service knows in the model; the others are absent
\* from its responses.
SupportedCodes == {"USD", "JPY"}

\* symbols = [c for c in currencies if c.upper() != "EUR"]
Symbols(cs) == Range(cs) \ {"EUR"}

\* fetch_rates(currencies): every way the call can end.  A returned tuple is
\* given as run() passes it on (rates or {}, date_str or "", error or "");
\* "raised" stands for an exception that none of the except clauses names
\* (a body that is not UTF-8, a truncated body).
FetchRates(cs) ==
    IF Symbols(cs) = {}
    THEN {[raised |-> FALSE, rates |-> EmptyRates, date |-> "", error |-> ""]}
    ELSE {[raised |-> FALSE, rates |-> [c \in got |-> FetchedRate], date |-> d, error |-> ""] :
              got \in {Symbols(cs) \cap SupportedCodes, {}}, d \in FetchedDates}
         \cup {[raised |-> FALSE, rates |-> EmptyRates, date |-> "", error |-> e] :
                  e \in FetchErrors}
         \cup {[raised |-> TRUE, rates |-> EmptyRates, date |-> "", error |-> ""]}

-----------------------------------------------------------------------------
(* core/calculator.py *)

\* convert_to_eur(h.market_value, h.currency)
MarketValueEur(rates, h) == ConvertToEur(rates, RInt(h.market_value), h.currency)

\* sum(convert_to_eur(h.market_value, h.currency) for h in holdings)
SumValueEur(rates, hs) == RSum([i \in 1..Len(hs) |-> MarketValueEur(rates, hs[i])])

\* sum(h.target_allocation for h in holdings)
SumTarget(hs) == RSum([i \in 1..Len(hs) |-> Rat(hs[i].target_allocation, 100)])

TotalInvestedEur(rates, hs) == SumValueEur(rates, hs)

TotalWithCashEur(rates, hs, cash) == RAdd(TotalInvestedEur(rates, hs), RInt(cash))

\* value / total if total > 0 else 0
Share(value, total) == IF RPos(total) THEN RDiv(value, total) ELSE RZero

\* Faulty variant: the with-cash share divided by the invested-only total.
CalculateAllocations_CashDropped(rates, hs, cash) ==
    LET total_invested_eur == TotalInvestedEur(rates, hs) IN
    [i \in 1..Len(hs) |->
        LET market_value_eur == MarketValueEur(rates, hs[i])
            alloc_with_cash == Share(market_value_eur, total_invested_eur)
        IN [instrument |-> hs[i].instrument,
            market_value |-> hs[i].market_value,
            market_value_eur |-> market_value_eur,
            allocation_pct |-> Share(market_value_eur, total_invested_eur),
            allocation_with_cash |-> alloc_with_cash,
            target_allocation |-> Rat(hs[i].target_allocation, 100),
            diff_with_target |-> RSub(Rat(hs[i].target_allocation, 100), alloc_with_cash)]]

\* calculate_allocations
CalculateAllocations(rates, hs, cash) ==
    LET total_invested_eur == TotalInvestedEur(rates, hs)
        total_with_cash_eur == TotalWithCashEur(rates, hs, cash)
    IN
    [i \in 1..Len(hs) |->
        LET market_value_eur == MarketValueEur(rates, hs[i])
            alloc_with_cash == Share(market_value_eur, total_with_cash_eur)
        IN [instrument |-> hs[i].instrument,
            market_value |-> hs[i].market_value,
            market_value_eur |-> market_value_eur,
            allocation_pct |-> Share(market_value_eur, total_invested_eur),
            allocation_with_cash |-> alloc_with_cash,
            target_allocation |-> Rat(hs[i].target_allocation, 100),
            diff_with_target |-> RSub(Rat(hs[i].target_allocation, 100), alloc_with_cash)]]

\* Faulty variant: Unassigned holdings are left out of the grouping.
ByType_AssignedOnly(hs, asset_type) ==
    LET InGroup(h) == h.asset_type = asset_type /\ asset_type # "Unassigned"
    IN SelectSeq(hs, InGroup)

\* by_type.get(asset_type, []): the holdings grouped under one asset type
ByType(hs, asset_type) ==
    LET InGroup(h) == h.asset_type = asset_type
    IN SelectSeq(hs, InGroup)

\* by_region.get(region, []): the holdings grouped under one region
ByRegion(hs, region) ==
    LET InGroup(h) == h.region = region
    IN SelectSeq(hs, InGroup)

\* StatsBasic for one category and the holdings grouped under it
StatsBasic(rates, hs, cash, category, group) ==
    [category |-> category,
     current |-> Share(SumValueEur(rates, group), TotalInvestedEur(rates, hs)),
     current_all |-> Share(SumValueEur(rates, group), TotalWithCashEur(rates, hs, cash)),
     target |-> SumTarget(group)]

\* calculate_stats_by_type
CalculateStatsByType(rates, hs, cash) ==
    [k \in 1..Len(AssetType) |->
        StatsBasic(rates, hs, cash, AssetType[k], ByType(hs, AssetType[k]))]

\* calculate_stats_by_region
CalculateStatsByRegion(rates, hs, cash) ==
    [k \in 1..Len(Region) |->
        StatsBasic(rates, hs, cash, Region[k], ByRegion(hs, Region[k]))]

\* by_combo.get((asset_type, region), [])
ByCombo(hs, asset_type, region) ==
    LET InGroup(h) == h.asset_type = asset_type /\ h.region = region
    IN SelectSeq(hs, InGroup)

\* The k-th pair visited by "for asset_type in AssetType: for region in Region".
Combo(k) ==
    [asset_type |-> AssetType[((k - 1) \div Len(Region)) + 1],
     region |-> Region[((k - 1) % Len(Region)) + 1]]

\* Faulty variant: only the empty combinations are skipped.
SkipCombo_EmptyOnly(hs, asset_type, region) ==
    ByCombo(hs, asset_type, region) = <<>>

\* The two "continue" tests of calculate_stats_detailed.
SkipCombo(hs, asset_type, region) ==
    \/ asset_type = "Unassigned" /\ region = "Unassigned"
    \/ ByCombo(hs, asset_type, region) = <<>>

\* StatsDetailed for one combination and the holdings grouped under it
StatsDetailed(rates, hs, cash, asset_type, region, group) ==
    [asset_type |-> asset_type,
     region |-> region,
     current |-> Share(SumValueEur(rates, group), TotalInvestedEur(rates, hs)),
     current_all |-> Share(SumValueEur(rates, group), TotalWithCashEur(rates, hs, cash)),
     target |-> SumTarget(group)]

\* The nested loops of calculate_stats_detailed from the k-th pair on.
RECURSIVE StatsDetailedLoop(_, _, _, _)
StatsDetailedLoop(rates, hs, cash, k) ==
    IF k > Len(AssetType) * Len(Region) THEN <<>>
    ELSE LET asset_type == Combo(k).asset_type
             region == Combo(k).region
             rest == StatsDetailedLoop(rates, hs, cash, k + 1)
         IN IF SkipCombo(hs, asset_type, region) THEN rest
            ELSE <<StatsDetailed(rates, hs, cash, asset_type, region,
                                 ByCombo(hs, asset_type, region))>> \o rest

\* calculate_stats_detailed
CalculateStatsDetailed(rates, hs, cash) == StatsDetailedLoop(rates, hs, cash, 1)

-----------------------------------------------------------------------------
(* ui/main_window.py and the tabs: the application as a state machine *)

\* Choices offered to the user in the model.
TypeChoices == {"Equity", "Unassigned"}
RegionChoices == {"US", "Unassigned"}
CurrencyChoices == {"EUR", "USD"}
TargetChoices == {-5, 0, 40}

\* The rows a confirmed review dialog emits (ReviewDialog.get_edited_holdings):
\* freshly built holdings with default classification fields.
ReviewedRows == {Holding(inst, q) : inst \in Instruments, q \in 1..2}

\* MainWindow.__init__ on a first run: no files, empty portfolio.
Init ==
    /\ holdings = <<>>
    /\ free_cash = 0
    /\ mappings = EmptyMappings
    /\ exchange_rates = DEFAULT_EXCHANGE_RATES
    /\ portfolio_file = NoFile
    /\ settings_free_cash = 0
    /\ allocations = <<>>
    /\ stats_by_type = <<>>
    /\ stats_by_region = <<>>
    /\ lastOp = "init"
    /\ prev_holdings = <<>>
    /\ incoming = <<>>
    /\ ops = 0
    /\ stats_detailed = <<>>
    /\ prev_mappings = EmptyMappings
    /\ InitCurrencyTab
    /\ InitSession
    /\ InitParser

\* One more handler call, while the bound allows it.
Step == ops < MaxOps /\ ops' = ops + 1

\* Faulty variant: the free cash is not written to the settings.
SaveAll_FreeCashNotStored(hs, cash) ==
    /\ portfolio_file' = PortfolioData(hs, cash)
    /\ mappings' = UpdateFromHoldings(mappings, hs)
    /\ UNCHANGED settings_free_cash

\* MainWindow.save_all applied to the portfolio (hs, cash)
SaveAll(hs, cash) ==
    /\ portfolio_file' = PortfolioData(hs, cash)
    /\ mappings' = UpdateFromHoldings(mappings, hs)
    /\ settings_free_cash' = cash

\* InstrumentConfigTab.on_type_changed, then MainWindow.on_config_changed
OnTypeChanged ==
    \E row \in 1..Len(holdings), new_type \in TypeChoices :
        /\ new_type # holdings[row].asset_type
        /\ holdings' = [holdings EXCEPT ![row].asset_type = new_type]
        /\ SaveAll(holdings', free_cash)
        /\ lastOp' = "on_type_changed"
        /\ prev_holdings' = holdings
        /\ incoming' = <<>>
        /\ Step
        /\ UNCHANGED <<free_cash, exchange_rates, allocations, stats_by_type, stats_by_region,
                       stats_detailed, prev_mappings, rateVars, sessionVars, parserVars>>

\* InstrumentConfigTab.on_region_changed, then MainWindow.on_config_changed
OnRegionChanged ==
    \E row \in 1..Len(holdings), new_region \in RegionChoices :
        /\ new_region # holdings[row].region
        /\ holdings' = [holdings EXCEPT ![row].region = new_region]
        /\ SaveAll(holdings', free_cash)
        /\ lastOp' = "on_region_changed"
        /\ prev_holdings' = holdings
        /\ incoming' = <<>>
        /\ Step
        /\ UNCHANGED <<free_cash, exchange_rates, allocations, stats_by_type, stats_by_region,
                       stats_detailed, prev_mappings, rateVars, sessionVars, parserVars>>

\* InstrumentConfigTab.on_currency_changed, then MainWindow.on_config_changed
OnCurrencyChanged ==
    \E row \in 1..Len(holdings), currency \in CurrencyChoices :
        /\ currency # holdings[row].currency
        /\ holdings' = [holdings EXCEPT ![row].currency = currency]
        /\ SaveAll(holdings', free_cash)
        /\ lastOp' = "on_currency_changed"
        /\ prev_holdings' = holdings
        /\ incoming' = <<>>
        /\ Step
        /\ UNCHANGED <<free_cash, exchange_rates, allocations, stats_by_type, stats_by_region,
                       stats_detailed, prev_mappings, rateVars, sessionVars, parserVars>>

\* PortfolioTab.on_cell_changed for the Target % column, then
\* MainWindow.on_portfolio_changed
OnTargetChanged ==
    \E row \in 1..Len(holdings), value \in TargetChoices :
        /\ value # holdings[row].target_allocation
        /\ holdings' = [holdings EXCEPT ![row].target_allocation = value]
        /\ SaveAll(holdings', free_cash)
        /\ lastOp' = "on_cell_changed"
        /\ prev_holdings' = holdings
        /\ incoming' = <<>>
        /\ Step
        /\ UNCHANGED <<free_cash, exchange_rates, allocations, stats_by_type, stats_by_region,
                       stats_detailed, prev_mappings, rateVars, sessionVars, parserVars>>

\* PortfolioTab.delete_holding_by_idx (answered Yes), then
\* MainWindow.on_portfolio_changed
DeleteHolding ==
    \E holding_idx \in 1..Len(holdings) :
        /\ holdings' = SubSeq(holdings, 1, holding_idx - 1)
                         \o SubSeq(holdings, holding_idx + 1, Len(holdings))
        /\ SaveAll(holdings', free_cash)
        /\ lastOp' = "delete_holding"
        /\ prev_holdings' = holdings
        /\ incoming' = <<>>
        /\ Step
        /\ UNCHANGED <<free_cash, exchange_rates, allocations, stats_by_type, stats_by_region,
                       stats_detailed, prev_mappings, rateVars, sessionVars, parserVars>>

\* MainWindow.on_data_confirmed
OnDataConfirmed ==
    \E rows \in SeqsUpTo(ReviewedRows, MaxIncoming) :
        /\ rows # <<>>
        /\ Len(AddOrUpdateHoldings(holdings, ApplyMappings(mappings, rows))) <= MaxHoldings
        /\ holdings' = AddOrUpdateHoldings(holdings, ApplyMappings(mappings, rows))
        /\ SaveAll(holdings', free_cash)
        /\ lastOp' = "on_data_confirmed"
        /\ prev_holdings' = holdings
        /\ incoming' = rows
        /\ Step
        /\ UNCHANGED <<free_cash, exchange_rates, allocations, stats_by_type, stats_by_region,
                       stats_detailed, prev_mappings, rateVars, sessionVars, parserVars>>

Next ==
    \/ OnTypeChanged
    \/ OnRegionChanged
    \/ OnCurrencyChanged
    \/ OnTargetChanged
    \/ DeleteHolding
    \/ OnDataConfirmed

Spec == Init /\ [][Next]_vars

-----------------------------------------------------------------------------
(* ui/currency_tab.py and MainWindow.on_load_data: the exchange rates, the  *)
(* background fetch of reference rates and the loading of a snapshot file. *)

MaxFetches == 2

\* What the user may type into the currency tab in the model.
RateInputs == {RZero, Rat(2, 1)}
EditableRows == {"EUR", "USD"}
NewCurrencyInputs == {"JPY", "USD"}
NewCurrencyRate == Rat(160, 1)

\* QThread.isRunning() of the t-th thread created
IsRunning(t) == threads[t].state = "running"

\* An uncaught exception in RatesFetchThread.run ends the process (PyQt
\* reports it with qFatal); nothing runs after that.
Alive == \A t \in 1..Len(threads) : threads[t].state # "aborted"

\* The handler was entered: what it was given (for a handler without
\* arguments, what it found) and the stores as they were.
Entered(name, given) ==
    /\ Alive
    /\ lastOp' = name
    /\ incoming' = given
    /\ prev_settings' = SettingsNow
    /\ prev_holdings' = holdings
    /\ prev_mappings' = mappings

\* CurrencyTab.on_rate_changed for the rate cell of one row
OnRateChanged ==
    \E currency \in EditableRows \cap Range(currencies), rate \in RateInputs :
        /\ Entered("on_rate_changed", <<[currency |-> currency, rate |-> rate]>>)
        /\ Step
        /\ IF currency = "EUR"
           THEN UNCHANGED <<exchange_rates, shown_error>>
           ELSE IF ~RPos(rate)
                THEN /\ shown_error' = "Please enter a valid positive number for the exchange rate."
                     /\ UNCHANGED exchange_rates
                ELSE /\ exchange_rates' = SetExchangeRate(exchange_rates, currency, rate)
                     /\ UNCHANGED shown_error
        /\ UNCHANGED <<holdings, free_cash, mappings, portfolio_file, settings_free_cash,
                       allocations, stats_by_type, stats_by_region, stats_detailed,
                       currencies, rates_last_updated, fetch_thread, threads, events,
                       sessionVars, parserVars>>

\* CurrencyTab.on_add_currency with a code and a positive rate typed in
OnAddCurrency ==
    \E currency \in NewCurrencyInputs :
        /\ Entered("on_add_currency", <<[currency |-> currency, rate |-> NewCurrencyRate]>>)
        /\ Step
        /\ IF currency \in Range(currencies)
           THEN /\ shown_error' = "Currency already exists."
                /\ UNCHANGED <<currencies, exchange_rates>>
           ELSE /\ currencies' = AddCurrency(currencies, currency)
                /\ exchange_rates' = SetExchangeRate(exchange_rates, currency, NewCurrencyRate)
                /\ UNCHANGED shown_error
        /\ UNCHANGED <<holdings, free_cash, mappings, portfolio_file, settings_free_cash,
                       allocations, stats_by_type, stats_by_region, stats_detailed,
                       rates_last_updated, fetch_thread, threads, events, sessionVars,
                       parserVars>>

\* Faulty variant: a running thread is not noticed.
FetchInFlight_Never(thread, ts) == FALSE

\* self._fetch_thread is not None and self._fetch_thread.isRunning()
FetchInFlight(thread, ts) == thread # 0 /\ ts[thread].state = "running"

\* CurrencyTab.on_update_rates_from_internet
OnUpdateRatesFromInternet ==
    /\ Entered("on_update_rates_from_internet", <<[threads |-> threads]>>)
    /\ Step
    /\ IF FetchInFlight(fetch_thread, threads)
       THEN UNCHANGED <<fetch_thread, threads>>
       ELSE /\ Len(threads) < MaxFetches
            /\ threads' = Append(threads, [currencies |-> currencies, state |-> "running",
                                           emitted |-> 0])
            /\ fetch_thread' = Len(threads) + 1
    /\ UNCHANGED <<holdings, free_cash, mappings, exchange_rates, portfolio_file,
                   settings_free_cash, allocations, stats_by_type, stats_by_region,
                   stats_detailed, currencies, rates_last_updated, events, shown_error,
                   sessionVars, parserVars>>

\* RatesFetchThread.run: fetch_rates, then fetch_finished.emit(...), which
\* queues the signal for the main thread.
ThreadRun ==
    \E t \in 1..Len(threads) : \E result \in FetchRates(threads[t].currencies) :
        /\ Alive
        /\ threads[t].state = "running"
        /\ threads[t].emitted = 0
        /\ IF result.raised
           THEN /\ threads' = [threads EXCEPT ![t].state = "aborted"]
                /\ UNCHANGED events
           ELSE /\ threads' = [threads EXCEPT ![t].emitted = 1]
                /\ events' = Append(events, [signal |-> "fetch_finished", thread |-> t,
                                             rates |-> result.rates, date |-> result.date,
                                             error |-> result.error])
        /\ UNCHANGED <<holdings, free_cash, mappings, exchange_rates, portfolio_file,
                       settings_free_cash, allocations, stats_by_type, stats_by_region,
                       stats_detailed, lastOp, prev_holdings, incoming, ops, prev_mappings,
                       currencies, rates_last_updated, fetch_thread, shown_error,
                       prev_settings, sessionVars, parserVars>>

\* run() has returned: the thread stops running and QThread.finished is
\* queued for the main thread.
ThreadExit ==
    \E t \in 1..Len(threads) :
        /\ Alive
        /\ threads[t].state = "running"
        /\ threads[t].emitted = 1
        /\ threads' = [threads EXCEPT ![t].state = "finished"]
        /\ events' = Append(events, [signal |-> "finished", thread |-> t,
                                     rates |-> EmptyRates, date |-> "", error |-> ""])
        /\ UNCHANGED <<holdings, free_cash, mappings, exchange_rates, portfolio_file,
                       settings_free_cash, allocations, stats_by_type, stats_by_region,
                       stats_detailed, lastOp, prev_holdings, incoming, ops, prev_mappings,
                       currencies, rates_last_updated, fetch_thread, shown_error,
                       prev_settings, sessionVars, parserVars>>

\* Faulty variant: the fetched rates replace the table.
MergeRates_Replace(current, rates) == rates

\* current = dict(get_exchange_rates()); for currency, rate in rates.items():
\* current[currency] = rate
MergeRates(current, rates) ==
    [c \in DOMAIN current \cup DOMAIN rates |->
        IF c \in DOMAIN rates THEN rates[c] ELSE current[c]]

\* Faulty variant: the error text is not looked at.
IsFailure_Never(error_msg) == FALSE

\* "if error_msg:"
IsFailure(error_msg) == error_msg # ""

\* CurrencyTab._on_fetch_finished, run by the main thread for the oldest
\* queued signal
OnFetchFinished ==
    /\ events # <<>>
    /\ Head(events).signal = "fetch_finished"
    /\ Entered("_on_fetch_finished", <<Head(events)>>)
    /\ events' = Tail(events)
    /\ LET rates == Head(events).rates
           date_str == Head(events).date
           error_msg == Head(events).error
       IN IF IsFailure(error_msg)
          THEN /\ shown_error' = error_msg
               /\ UNCHANGED <<exchange_rates, rates_last_updated>>
          ELSE IF rates = EmptyRates
               THEN UNCHANGED <<exchange_rates, rates_last_updated, shown_error>>
               ELSE /\ exchange_rates' =
                          UpdateExchangeRates(exchange_rates, MergeRates(exchange_rates, rates))
                    /\ rates_last_updated' =
                          IF date_str # "" THEN SetRatesLastUpdated(date_str)
                          ELSE rates_last_updated
                    /\ UNCHANGED shown_error
    /\ UNCHANGED <<holdings, free_cash, mappings, portfolio_file, settings_free_cash,
                   allocations, stats_by_type, stats_by_region, stats_detailed, ops,
                   currencies, fetch_thread, threads, sessionVars, parserVars>>

\* The snapshot files offered to Load Data in the model: a full snapshot
\* (its rates name EUR, its currency list does not), a snapshot with a
\* portfolio only, one with a holding whose asset type is no member of the
\* enum, an empty one and a file that is not JSON.
LoadedHolding == ToDict(Holding("A", 1))

LoadedSettings ==
    [has_currencies |-> TRUE, currencies |-> <<"USD", "JPY">>,
     has_exchange_rates |-> TRUE, rates_ok |-> TRUE,
     exchange_rates |-> ("EUR" :> Rat(2, 1)) @@ ("JPY" :> Rat(160, 1))]

NoSettings ==
    [has_currencies |-> FALSE, currencies |-> <<>>,
     has_exchange_rates |-> FALSE, rates_ok |-> TRUE, exchange_rates |-> EmptyRates]

LoadedMappings ==
    "A" :> [asset_type |-> "Equity", region |-> "US",
            target_allocation |-> 40, currency |-> "USD"]

LoadFile(json_ok, hs, st, mp) ==
    [json_ok |-> json_ok, holdings |-> hs, free_cash |-> 50, settings |-> st, mappings |-> mp]

LoadFiles ==
    { LoadFile(TRUE, <<LoadedHolding>>, LoadedSettings, LoadedMappings),
      LoadFile(TRUE, <<LoadedHolding>>, NoSettings, EmptyMappings),
      LoadFile(TRUE, <<[LoadedHolding EXCEPT !.asset_type = "Stock"]>>,
               LoadedSettings, LoadedMappings),
      LoadFile(TRUE, <<>>, NoSettings, EmptyMappings),
      LoadFile(FALSE, <<>>, NoSettings, EmptyMappings) }

\* MainWindow.on_load_data for one chosen file.  The holdings and the free
\* cash are parsed first; the settings are written next, the currency list
\* before the rates, and a rates section that is no JSON object raises
\* between the two; the mappings and the portfolio follow, then save_all.
LoadData(file) ==
    /\ Entered("on_load_data", <<file>>)
    /\ Step
    /\ IF \/ ~file.json_ok
          \/ \E i \in 1..Len(file.holdings) : FromDictRaises(file.holdings[i])
       THEN /\ shown_error' = "Load Error"
            /\ outcome' = "failed"
            /\ UNCHANGED <<holdings, free_cash, mappings, exchange_rates, currencies,
                           portfolio_file, settings_free_cash>>
       ELSE IF file.settings.has_exchange_rates /\ ~file.settings.rates_ok
       THEN /\ currencies' = IF file.settings.has_currencies
                              THEN SetCurrencies(file.settings.currencies)
                              ELSE currencies
            /\ shown_error' = "Load Error"
            /\ outcome' = "failed"
            /\ UNCHANGED <<holdings, free_cash, mappings, exchange_rates,
                           portfolio_file, settings_free_cash>>
       ELSE LET loaded == [i \in 1..Len(file.holdings) |-> FromDict(file.holdings[i])]
                stored == IF file.mappings # EmptyMappings THEN file.mappings ELSE mappings
                applied == ApplyMappings(stored, loaded)
            IN /\ currencies' = IF file.settings.has_currencies
                                 THEN SetCurrencies(file.settings.currencies)
                                 ELSE currencies
               /\ exchange_rates' = IF file.settings.has_exchange_rates
                                     THEN SetExchangeRates(exchange_rates,
                                                           file.settings.exchange_rates)
                                     ELSE exchange_rates
               /\ holdings' = applied
               /\ free_cash' = file.free_cash
               /\ portfolio_file' = PortfolioData(applied, file.free_cash)
               /\ mappings' = UpdateFromHoldings(stored, applied)
               /\ settings_free_cash' = file.free_cash
               /\ outcome' = "loaded"
               /\ UNCHANGED shown_error
    /\ UNCHANGED <<allocations, stats_by_type, stats_by_region, stats_detailed,
                   rates_last_updated, fetch_thread, threads, events, export_file, parserVars>>

\* MainWindow.on_load_data with a file chosen
OnLoadData == \E file \in LoadFiles : LoadData(file)

\* CurrencyTab._on_fetch_thread_finished (it only re-enables the button)
OnFetchThreadFinished ==
    /\ events # <<>>
    /\ Head(events).signal = "finished"
    /\ Entered("_on_fetch_thread_finished", <<Head(events)>>)
    /\ events' = Tail(events)
    /\ UNCHANGED <<holdings, free_cash, mappings, exchange_rates, portfolio_file,
                   settings_free_cash, allocations, stats_by_type, stats_by_region,
                   stats_detailed, ops, currencies, rates_last_updated, fetch_thread,
                   threads, shown_error, sessionVars, parserVars>>

NextRates ==
    \/ OnRateChanged
    \/ OnAddCurrency
    \/ OnUpdateRatesFromInternet
    \/ ThreadRun
    \/ ThreadExit
    \/ OnFetchFinished
    \/ OnFetchThreadFinished
    \/ OnLoadData

SpecRates == Init /\ [][NextRates]_vars

-----------------------------------------------------------------------------
(* ui/main_window.py: a whole session.  Edits, imports through the review  *)
(* dialog, Reset, Save Data / Load Data and closing and starting again.    *)

calcVars == <<allocations, stats_by_type, stats_by_region, stats_detailed>>
fetchVars == <<rates_last_updated, fetch_thread, threads, events>>

\* What the user may type into the free cash field in the model.
FreeCashInputs == {0, 50}

\* PortfolioTab.on_free_cash_changed, then MainWindow.on_portfolio_changed
OnFreeCashChanged ==
    \E value \in FreeCashInputs :
        /\ value # free_cash
        /\ Entered("on_free_cash_changed", <<>>)
        /\ Step
        /\ free_cash' = value
        /\ SaveAll(holdings, value)
        /\ UNCHANGED <<holdings, exchange_rates, currencies, shown_error, calcVars,
                       fetchVars, sessionVars, parserVars>>

\* str.strip() and str.upper() on the texts typed into the confirmation box
LowerChars == "abcdefghijklmnopqrstuvwxyz"
UpperChars == "ABCDEFGHIJKLMNOPQRSTUVWXYZ"

CharAt(s, i) == SubSeq(s, i, i)

IsSpace(c) == c \in {" ", "\t"}

RECURSIVE Strip(_)
Strip(s) ==
    IF s = "" THEN s
    ELSE IF IsSpace(CharAt(s, 1)) THEN Strip(SubSeq(s, 2, Len(s)))
    ELSE IF IsSpace(CharAt(s, Len(s))) THEN Strip(SubSeq(s, 1, Len(s) - 1))
    ELSE s

UpperChar(c) ==
    IF \E i \in 1..Len(LowerChars) : CharAt(LowerChars, i) = c
    THEN CharAt(UpperChars, CHOOSE i \in 1..Len(LowerChars) : CharAt(LowerChars, i) = c)
    ELSE c

RECURSIVE Upper(_)
Upper(s) == IF s = "" THEN s ELSE UpperChar(CharAt(s, 1)) \o Upper(SubSeq(s, 2, Len(s)))

\* The answers to the two dialogs of Reset: the button of the warning box,
\* then (ok, text) of the input box (not shown after a No).
ResetAnswer(reply, ok, text) == [reply |-> reply, ok |-> ok, text |-> text]

ResetAnswers ==
    { ResetAnswer("No", FALSE, ""),
      ResetAnswer("Yes", FALSE, "DELETE"),
      ResetAnswer("Yes", TRUE, "DEL"),
      ResetAnswer("Yes", TRUE, "DELETE"),
      ResetAnswer("Yes", TRUE, " delete ") }

\* Faulty variant: any text confirmed with OK is accepted.
ResetConfirmed_AnyText(reply, ok, text) == reply = "Yes" /\ ok

\* reply == Yes, then ok and text.strip().upper() == "DELETE"
ResetConfirmed(reply, ok, text) ==
    reply = "Yes" /\ ok /\ Upper(Strip(text)) = "DELETE"

\* MainWindow.on_reset_data
OnResetData ==
    \E answer \in ResetAnswers :
        /\ Entered("on_reset_data", <<answer>>)
        /\ Step
        /\ IF ResetConfirmed(answer.reply, answer.ok, answer.text)
           THEN /\ holdings' = <<>>
                /\ free_cash' = 0
                /\ SaveAll(<<>>, 0)
                /\ outcome' = "reset"
           ELSE /\ outcome' = "declined"
                /\ UNCHANGED <<holdings, free_cash, mappings, portfolio_file,
                               settings_free_cash>>
        /\ UNCHANGED <<exchange_rates, currencies, shown_error, calcVars, fetchVars,
                       export_file, parserVars>>

\* export_data of on_save_data: the portfolio, the currency settings and the
\* mappings, as json.dump writes them.
Snapshot(hs, cash, cs, rates, mp) ==
    [json_ok |-> TRUE,
     holdings |-> [i \in 1..Len(hs) |-> ToDict(hs[i])],
     free_cash |-> cash,
     settings |-> [has_currencies |-> TRUE, currencies |-> cs,
                   has_exchange_rates |-> TRUE, rates_ok |-> TRUE,
                   exchange_rates |-> rates],
     mappings |-> mp]

\* MainWindow.on_save_data (a path chosen or the file dialog cancelled)
OnSaveData ==
    \E chosen \in BOOLEAN :
        /\ Entered("on_save_data", <<>>)
        /\ Step
        /\ IF chosen
           THEN /\ export_file' = Snapshot(holdings, free_cash, currencies,
                                           exchange_rates, mappings)
                /\ outcome' = "saved"
           ELSE /\ outcome' = "declined"
                /\ UNCHANGED export_file
        /\ UNCHANGED <<holdings, free_cash, mappings, exchange_rates, portfolio_file,
                       settings_free_cash, currencies, shown_error, calcVars, fetchVars,
                       parserVars>>

\* A snapshot whose rates section is a JSON array instead of an object.
BadRatesFile ==
    [json_ok |-> TRUE, holdings |-> <<LoadedHolding>>, free_cash |-> 50,
     settings |-> [has_currencies |-> TRUE, currencies |-> <<"USD", "JPY">>,
                   has_exchange_rates |-> TRUE, rates_ok |-> FALSE,
                   exchange_rates |-> EmptyRates],
     mappings |-> EmptyMappings]

\* A snapshot written elsewhere: one holding and a mapping that gives it an
\* asset type only.
ExternalSnapshot ==
    LoadFile(TRUE, <<LoadedHolding>>, LoadedSettings,
             "A" :> [asset_type |-> "Equity", region |-> "Unassigned",
                     target_allocation |-> 0, currency |-> "EUR"])

\* The files offered to Load Data in a session: the snapshot written by Save
\* Data if there is one, a snapshot written elsewhere, a snapshot with an
\* unknown asset type, one with a malformed rates section and a file that
\* is not JSON.
SessionFiles ==
    (IF export_file = NoFile THEN {} ELSE {export_file})
    \cup { ExternalSnapshot,
           LoadFile(TRUE, <<[LoadedHolding EXCEPT !.asset_type = "Stock"]>>,
                    LoadedSettings, LoadedMappings),
           BadRatesFile,
           LoadFile(FALSE, <<>>, NoSettings, EmptyMappings) }

\* MainWindow.on_load_data in a session
OnLoadSnapshot == \E file \in SessionFiles : LoadData(file)

\* PortfolioStore.load: None when the file is absent or a record does not
\* parse, and "load() or Portfolio()" then starts from an empty portfolio.
LoadPortfolio(file) ==
    IF file = NoFile THEN <<>>
    ELSE IF \E i \in 1..Len(file.holdings) : FromDictRaises(file.holdings[i]) THEN <<>>
    ELSE [i \in 1..Len(file.holdings) |-> FromDict(file.holdings[i])]

\* MainWindow.__init__: the stored portfolio with the stored mappings applied
StartupHoldings(m, file) == ApplyMappings(m, LoadPortfolio(file))

\* MainWindow.closeEvent (save_all), then MainWindow.__init__ of the next
\* run: the stores are read back from their files and the free cash is
\* taken from the settings.
Restart ==
    /\ Entered("__init__", <<>>)
    /\ Step
    /\ SaveAll(holdings, free_cash)
    /\ holdings' = StartupHoldings(mappings', portfolio_file')
    /\ free_cash' = settings_free_cash'
    /\ fetch_thread' = 0
    /\ threads' = <<>>
    /\ events' = <<>>
    /\ outcome' = "started"
    /\ UNCHANGED <<exchange_rates, currencies, rates_last_updated, shown_error, calcVars,
                   export_file, parserVars>>

\* The files handed to process_import_file in the model.  "rows" is what
\* the parser extracts when it gets that far.
ImportFile(suffix, exists, tesseract, has_header, rows) ==
    [suffix |-> suffix, exists |-> exists, tesseract |-> tesseract,
     has_header |-> has_header, rows |-> rows]

\* The row lists of the files that hold data.
ImportedRows ==
    { <<Holding("A", 1)>>, <<Holding("B", 1)>>, <<Holding("A", 2), Holding("B", 2)>> }

ImportFiles ==
    { ImportFile(".xlsx", FALSE, TRUE, TRUE, <<>>),
      ImportFile(".txt", TRUE, TRUE, TRUE, <<>>),
      ImportFile(".xlsx", TRUE, TRUE, FALSE, <<>>),
      ImportFile(".png", TRUE, FALSE, TRUE, <<>>),
      ImportFile(".png", TRUE, TRUE, TRUE, <<>>),
      ImportFile(".csv", TRUE, TRUE, TRUE, <<>>) }
    \cup { ImportFile(".xlsx", TRUE, TRUE, TRUE, rows) : rows \in ImportedRows }

IsImage(suffix) == suffix \in {".png", ".jpg", ".jpeg"}

Raised(error) == [raised |-> TRUE, error |-> error, holdings |-> <<>>]
Returned(rows) == [raised |-> FALSE, error |-> "", holdings |-> rows]

\* parse_excel_file
ParseExcelFile(file) ==
    IF ~file.exists THEN Raised("File not found")
    ELSE IF ~file.has_header THEN Raised("Could not find header row in Excel file")
    ELSE Returned(file.rows)

\* parse_csv_file
ParseCsvFile(file) ==
    IF ~file.exists THEN Raised("File not found") ELSE Returned(file.rows)

\* parse_file
ParseFile(file) ==
    IF file.suffix \in {".xlsx", ".xls"} THEN ParseExcelFile(file)
    ELSE IF file.suffix = ".csv" THEN ParseCsvFile(file)
    ELSE Raised("Unsupported file format")

\* parse_image_file
ParseImageFile(file) ==
    IF ~file.tesseract THEN Raised("Tesseract OCR is not installed or not found in PATH.")
    ELSE IF ~file.exists THEN Raised("File not found")
    ELSE Returned(file.rows)

\* Faulty variant: an empty result is passed on to the review.
NoDataFound_Never(rows) == FALSE

\* "if not holdings:"
NoDataFound(rows) == rows = <<>>

\* MainWindow.process_import_file, the review dialog it opens and, when the
\* review is confirmed, MainWindow.on_data_confirmed.
ProcessImportFile ==
    \E file \in ImportFiles, confirm \in BOOLEAN :
        LET parsed == IF IsImage(file.suffix) THEN ParseImageFile(file) ELSE ParseFile(file)
        IN
        /\ Entered("process_import_file", parsed.holdings)
        /\ Step
        /\ IF IsImage(file.suffix) /\ ~file.tesseract
           THEN /\ shown_error' = "Tesseract Not Found"
                /\ outcome' = "hard failure"
                /\ UNCHANGED <<holdings, mappings, portfolio_file, settings_free_cash>>
           ELSE IF parsed.raised
           THEN /\ shown_error' = "Import Error"
                /\ outcome' = "hard failure"
                /\ UNCHANGED <<holdings, mappings, portfolio_file, settings_free_cash>>
           ELSE IF NoDataFound(parsed.holdings)
           THEN /\ shown_error' = "No Data Found"
                /\ outcome' = "no data found"
                /\ UNCHANGED <<holdings, mappings, portfolio_file, settings_free_cash>>
           ELSE IF ~confirm
           THEN /\ outcome' = "review cancelled"
                /\ UNCHANGED <<holdings, mappings, portfolio_file, settings_free_cash,
                               shown_error>>
           ELSE /\ Len(AddOrUpdateHoldings(holdings,
                                           ApplyMappings(mappings, parsed.holdings)))
                      <= MaxHoldings
                /\ holdings' = AddOrUpdateHoldings(holdings,
                                                   ApplyMappings(mappings, parsed.holdings))
                /\ SaveAll(holdings', free_cash)
                /\ outcome' = "review confirmed"
                /\ UNCHANGED shown_error
        /\ UNCHANGED <<free_cash, exchange_rates, currencies, calcVars, fetchVars,
                       export_file, parserVars>>

NextSession ==
    \/ OnTypeChanged
    \/ OnRegionChanged
    \/ OnCurrencyChanged
    \/ OnTargetChanged
    \/ DeleteHolding
    \/ OnFreeCashChanged
    \/ ProcessImportFile
    \/ OnResetData
    \/ OnSaveData
    \/ OnLoadSnapshot
    \/ Restart

SpecSession == Init /\ [][NextSession]_vars

-----------------------------------------------------------------------------
(* core/data_parser.py: the cell parsers on their own, applied to every     *)
(* text over a small alphabet.                                              *)

\* Longest text handed to a parser function.
MaxText == 3

\* U+2014, the dash the broker's export writes for a missing value; the
\* module is ASCII, so one character that occurs nowhere else stands for it.
EmDash == "~"

\* The characters the texts are built from: a digit, the minus sign, the
\* percent sign, a letter, a blank, the decimal point and the em dash.
TextChars == {"5", "-", "%", "a", " ", ".", EmDash}

RECURSIVE TextsUpTo(_)
TextsUpTo(n) ==
    IF n = 0 THEN {""}
    ELSE TextsUpTo(n - 1) \cup {t \o c : t \in TextsUpTo(n - 1), c \in TextChars}

Digits == "0123456789"

IsDigit(c) == \E i \in 1..Len(Digits) : CharAt(Digits, i) = c

DigitValue(c) == (CHOOSE i \in 1..Len(Digits) : CharAt(Digits, i) = c) - 1

RECURSIVE CountChar(_, _)
CountChar(s, c) ==
    IF s = "" THEN 0
    ELSE (IF CharAt(s, 1) = c THEN 1 ELSE 0) + CountChar(SubSeq(s, 2, Len(s)), c)

\* str.endswith
EndsWith(s, suffix) ==
    /\ Len(s) >= Len(suffix)
    /\ SubSeq(s, Len(s) - Len(suffix) + 1, Len(s)) = suffix

\* A decimal literal without sign: digits with at most one point and at
\* least one digit ("5", "5.", ".5", "5.5").
IsDecimalLiteral(s) ==
    /\ \A i \in 1..Len(s) : IsDigit(CharAt(s, i)) \/ CharAt(s, i) = "."
    /\ CountChar(s, ".") <= 1
    /\ \E i \in 1..Len(s) : IsDigit(CharAt(s, i))

\* The digits of a decimal literal read as one integer.
RECURSIVE Mantissa(_)
Mantissa(s) ==
    IF s = "" THEN 0
    ELSE LET last == CharAt(s, Len(s))
             init == SubSeq(s, 1, Len(s) - 1)
         IN  IF last = "." THEN Mantissa(init) ELSE 10 * Mantissa(init) + DigitValue(last)

\* The number of digits after the point.
RECURSIVE Decimals(_)
Decimals(s) ==
    IF CountChar(s, ".") = 0 THEN 0
    ELSE IF CharAt(s, Len(s)) = "." THEN 0
    ELSE 1 + Decimals(SubSeq(s, 1, Len(s) - 1))

RECURSIVE Pow10(_)
Pow10(k) == IF k = 0 THEN 1 ELSE 10 * Pow10(k - 1)

\* Python's float(str): surrounding whitespace is dropped, one sign may
\* lead, the rest is a decimal literal; anything else raises ValueError.
Float(s) ==
    LET t == Strip(s)
        negative == t # "" /\ CharAt(t, 1) = "-"
        u == IF negative THEN SubSeq(t, 2, Len(t)) ELSE t
    IN  IF IsDecimalLiteral(u)
        THEN [raised |-> FALSE,
              value |-> Rat((IF negative THEN -1 ELSE 1) * Mantissa(u), Pow10(Decimals(u)))]
        ELSE [raised |-> TRUE, value |-> RZero]

\* The arguments of the cell parsers: None, a number cell, a text cell.
NoneValue == [kind |-> "none", num |-> RZero, text |-> ""]
NumberValue(x) == [kind |-> "number", num |-> x, text |-> ""]
TextValue(s) == [kind |-> "text", num |-> RZero, text |-> s]

NumberCells == {RZero, RInt(5), Rat(1, 20), RInt(-5)}

CellValues ==
    {NoneValue} \cup {NumberValue(x) : x \in NumberCells}
                \cup {TextValue(s) : s \in TextsUpTo(MaxText)}

\* The texts that stand for a missing value.
MissingValueTexts == {EmDash, "-", "--", ""}

\* parse_percentage
ParsePercentage(value) ==
    IF value.kind = "none" THEN [raised |-> FALSE, value |-> RZero]
    ELSE IF value.kind = "number" THEN [raised |-> FALSE, value |-> value.num]
    ELSE LET s == Strip(value.text)
         IN  IF s \in MissingValueTexts THEN [raised |-> FALSE, value |-> RZero]
             ELSE IF EndsWith(s, "%")
             THEN LET f == Float(SubSeq(s, 1, Len(s) - 1))
                  IN  IF f.raised THEN f
                      ELSE [raised |-> FALSE, value |-> RDiv(f.value, RInt(100))]
             ELSE LET f == Float(s)
                  IN  IF f.raised THEN [raised |-> FALSE, value |-> RZero] ELSE f

\* Everything but the parser call is left alone by a parser function.
programVars ==
    <<holdings, free_cash, mappings, exchange_rates, portfolio_file, settings_free_cash,
      allocations, stats_by_type, stats_by_region, stats_detailed, prev_holdings,
      prev_mappings, incoming, ops, rateVars, sessionVars>>

InitProgram ==
    /\ holdings = <<>>
    /\ free_cash = 0
    /\ exchange_rates = DEFAULT_EXCHANGE_RATES
    /\ mappings = EmptyMappings
    /\ portfolio_file = NoFile
    /\ settings_free_cash = 0
    /\ allocations = <<>>
    /\ stats_by_type = <<>>
    /\ stats_by_region = <<>>
    /\ stats_detailed = <<>>
    /\ prev_holdings = <<>>
    /\ prev_mappings = EmptyMappings
    /\ incoming = <<>>
    /\ ops = 0
    /\ InitCurrencyTab
    /\ InitSession

InitPercentage ==
    /\ InitProgram
    /\ lastOp = "init"
    /\ parser_input \in CellValues
    /\ parser_result = <<>>

\* parse_percentage called on one cell
DoParsePercentage ==
    /\ lastOp = "init"
    /\ lastOp' = "parse_percentage"
    /\ parser_result' = ParsePercentage(parser_input)
    /\ UNCHANGED <<parser_input, programVars>>

NextPercentage == DoParsePercentage

SpecPercentage == InitPercentage /\ [][NextPercentage]_vars

-----------------------------------------------------------------------------
(* core/ocr_parser.py: parse_ocr_line on the parts of one recognised line   *)

\* str.replace(c, '')
RECURSIVE RemoveChar(_, _)
RemoveChar(s, c) ==
    IF s = "" THEN s
    ELSE (IF CharAt(s, 1) = c THEN "" ELSE CharAt(s, 1)) \o RemoveChar(SubSeq(s, 2, Len(s)), c)

\* sub in s
Contains(s, sub) ==
    \E i \in 1..(Len(s) - Len(sub) + 1) : SubSeq(s, i, i + Len(sub) - 1) = sub

LowerChar(c) ==
    IF \E i \in 1..Len(UpperChars) : CharAt(UpperChars, i) = c
    THEN CharAt(LowerChars, CHOOSE i \in 1..Len(UpperChars) : CharAt(UpperChars, i) = c)
    ELSE c

\* str.lower
RECURSIVE Lower(_)
Lower(s) == IF s = "" THEN s ELSE LowerChar(CharAt(s, 1)) \o Lower(SubSeq(s, 2, Len(s)))

\* str.isdigit
IsDigitText(s) == s # "" /\ \A i \in 1..Len(s) : IsDigit(CharAt(s, i))

\* parse_number
ParseNumber(value) ==
    IF value.kind = "none" THEN [raised |-> FALSE, value |-> RZero]
    ELSE IF value.kind = "number" THEN [raised |-> FALSE, value |-> value.num]
    ELSE LET stripped == Strip(value.text)
             s == IF Len(stripped) > 1 /\ CharAt(stripped, 1) = "C"
                  THEN SubSeq(stripped, 2, Len(stripped))
                  ELSE stripped
         IN  IF s \in MissingValueTexts THEN [raised |-> FALSE, value |-> RZero]
             ELSE LET f == Float(RemoveChar(s, ","))
                  IN  IF f.raised THEN [raised |-> FALSE, value |-> RZero] ELSE f

\* clean_instrument_name (no non-breaking space occurs in the names below)
CleanInstrumentName(name) == Strip(name)

skip_keywords == {"instrument", "position", "total", "sum", "pending", "last", "change"}

\* The body of the loop over parts[1:]: one part to one number.
ParseOcrPart(part) ==
    LET cleaned == Strip(part)
    IN  IF Contains(cleaned, "%")
        THEN ParsePercentage(TextValue(RemoveChar(cleaned, "%")))
        ELSE ParseNumber(TextValue(cleaned))

\* The numbers of a line, padded with zeros to eight.
OcrNumbers(parts) ==
    [i \in 1..8 |-> IF i + 1 <= Len(parts) THEN ParseOcrPart(parts[i + 1]).value ELSE RZero]

NoHolding == [found |-> FALSE]

\* The last position of the run of whitespace that starts at position i.
RECURSIVE WhitespaceEnd(_, _)
WhitespaceEnd(s, i) ==
    IF i < Len(s) /\ IsSpace(CharAt(s, i + 1)) THEN WhitespaceEnd(s, i + 1) ELSE i

\* The parts of a stripped text between its separators.  Every run of
\* whitespace separates, except, when singleBlankJoins, a blank on its own.
RECURSIVE SplitFrom(_, _, _, _, _)
SplitFrom(s, i, part, parts, singleBlankJoins) ==
    IF i > Len(s) THEN Append(parts, part)
    ELSE IF ~IsSpace(CharAt(s, i))
    THEN SplitFrom(s, i + 1, part \o CharAt(s, i), parts, singleBlankJoins)
    ELSE IF singleBlankJoins /\ CharAt(s, i) = " " /\ WhitespaceEnd(s, i) = i
    THEN SplitFrom(s, i + 1, part \o " ", parts, singleBlankJoins)
    ELSE SplitFrom(s, WhitespaceEnd(s, i) + 1, "", Append(parts, part), singleBlankJoins)

\* re.split(r'\s{2,}|\t+', line.strip())
SplitColumns(line) == SplitFrom(Strip(line), 1, "", <<>>, TRUE)

\* line.strip().split()
SplitWords(line) == IF Strip(line) = "" THEN <<>> ELSE SplitFrom(Strip(line), 1, "", <<>>, FALSE)

\* The parts of the line: its columns, or its words when the columns are
\* fewer than five.
OcrSplit(line) == IF Len(SplitColumns(line)) < 5 THEN SplitWords(line) ELSE SplitColumns(line)

\* parse_ocr_line
parse_ocr_line(line) ==
    LET parts == OcrSplit(line) IN
    IF Len(parts) < 5 THEN NoHolding
    ELSE LET instrument == CleanInstrumentName(parts[1])
             numbers == OcrNumbers(parts)
         IN  IF instrument = "" \/ IsDigitText(RemoveChar(RemoveChar(instrument, "."), "-"))
             THEN NoHolding
             ELSE IF \E kw \in skip_keywords : Contains(Lower(instrument), kw)
             THEN NoHolding
             ELSE IF \E i \in 2..Len(parts) : ParseOcrPart(parts[i]).raised
             THEN NoHolding
             ELSE [found |-> TRUE,
                   instrument |-> instrument,
                   position |-> numbers[1],
                   last_price |-> numbers[2],
                   change_pct |-> numbers[3],
                   cost_basis |-> numbers[4],
                   market_value |-> numbers[5],
                   avg_price |-> numbers[6],
                   daily_pnl |-> numbers[7],
                   unrealized_pnl |-> numbers[8]]

\* What the recogniser may put into one column: not empty, no blank at
\* either end.
OcrColumns == {t \in TextsUpTo(MaxText) : t # "" /\ Strip(t) = t}

OcrInstruments == {"AAPL", "Total", "5.5"}

\* What separates the columns of a recognised line.
OcrSeparators == {"\t", "  ", " "}

RECURSIVE Join(_, _)
Join(columns, sep) ==
    IF Len(columns) = 1 THEN columns[1]
    ELSE columns[1] \o sep \o Join(Tail(columns), sep)

\* The lines: an instrument, position and last price, the change column,
\* and the cost basis (absent from a line that is too short).
OcrLines ==
    {Join(<<name, "5", "5.5", t, "5">>, sep) :
        name \in OcrInstruments, t \in OcrColumns, sep \in OcrSeparators}
    \cup {Join(<<name, "5", "5.5", t>>, sep) :
        name \in OcrInstruments, t \in OcrColumns, sep \in OcrSeparators}

InitOcr ==
    /\ InitProgram
    /\ lastOp = "init"
    /\ parser_input \in OcrLines
    /\ parser_result = <<>>

\* parse_ocr_line called on one line
DoParseOcrLine ==
    /\ lastOp = "init"
    /\ lastOp' = "parse_ocr_line"
    /\ parser_result' = parse_ocr_line(parser_input)
    /\ UNCHANGED <<parser_input, programVars>>

NextOcr == DoParseOcrLine

SpecOcr == InitOcr /\ [][NextOcr]_vars

-----------------------------------------------------------------------------
(* core/data_parser.py: parse_excel_file on the rows of the active sheet    *)

\* column_aliases, in the order of the dictionary
column_aliases ==
    << [field |-> "instrument", aliases |-> <<"instrument", "ticker", "symbol", "name">>],
       [field |-> "position", aliases |-> <<"position", "qty", "quantity", "shares", "units">>],
       [field |-> "avg_price", aliases |-> <<"avg price", "average price", "avgprice">>],
       [field |-> "last_price",
        aliases |-> <<"last", "last price", "current price", "lastprice">>],
       [field |-> "change_pct", aliases |-> <<"change %", "change", "chg %", "daily change">>],
       [field |-> "cost_basis", aliases |-> <<"cost basis", "cost", "total cost", "basis">>],
       [field |-> "market_value",
        aliases |-> <<"market value", "value", "mkt value", "current value">>],
       [field |-> "daily_pnl",
        aliases |-> <<"daily p&l", "daily pnl", "day p&l", "daily gain">>],
       [field |-> "unrealized_pnl",
        aliases |-> <<"unrealized p&l", "unrealized pnl", "unrealized", "total p&l",
                      "gain/loss">>] >>

Fields == {column_aliases[k].field : k \in 1..Len(column_aliases)}

\* The column a field is read from when the header did not name it
\* (column_map.get(field, default), columns counted from 1).
DefaultColumn ==
    [f \in Fields |->
        CASE f = "instrument" -> 1
          [] f = "position" -> 2
          [] f = "last_price" -> 3
          [] f = "change_pct" -> 4
          [] f = "cost_basis" -> 5
          [] f = "market_value" -> 6
          [] f = "avg_price" -> 7
          [] f = "daily_pnl" -> 8
          [] f = "unrealized_pnl" -> 9]

\* Rows of the header scan.
max_row == 10

\* The text a header cell is matched on (an empty cell gives '').
HeaderText(cell) == Strip(Lower(cell))

\* The aliases of the k-th field that occur in the text.
AliasesIn(k, val) ==
    {a \in 1..Len(column_aliases[k].aliases) : Contains(val, column_aliases[k].aliases[a])}

\* The fields not yet mapped of which an alias occurs in the text.
Candidates(val, column_map) ==
    {k \in 1..Len(column_aliases) :
        column_aliases[k].field \notin DOMAIN column_map /\ AliasesIn(k, val) # {}}

\* The length of the longest alias of the k-th field that occurs in the text.
LongestAlias(k, val) ==
    LET lens == {Len(column_aliases[k].aliases[a]) : a \in AliasesIn(k, val)}
    IN  CHOOSE n \in lens : \A m \in lens : m <= n

\* best_match: the field with the longest alias in the text, the first such
\* field in dictionary order (a later alias replaces the best one only when
\* it is strictly longer); 0 when there is none.
BestMatch(val, column_map) ==
    LET cands == Candidates(val, column_map)
        best == {k \in cands : \A j \in cands : LongestAlias(j, val) <= LongestAlias(k, val)}
    IN  IF cands = {} THEN 0 ELSE CHOOSE k \in best : \A j \in best : k <= j

\* The loop over the columns of one row, from column col_idx on.
RECURSIVE MatchColumns(_, _, _, _)
MatchColumns(row, col_idx, temp_column_map, matches) ==
    IF col_idx > Len(row) THEN [column_map |-> temp_column_map, matches |-> matches]
    ELSE LET best_match == BestMatch(HeaderText(row[col_idx]), temp_column_map)
         IN  IF best_match = 0
             THEN MatchColumns(row, col_idx + 1, temp_column_map, matches)
             ELSE MatchColumns(row, col_idx + 1,
                               (column_aliases[best_match].field :> col_idx) @@ temp_column_map,
                               matches + 1)

EmptyColumnMap == [f \in {} |-> 0]

MatchRow(row) == MatchColumns(row, 1, EmptyColumnMap, 0)

\* Faulty variant of IsHeaderRow: two recognised columns are enough.
IsHeaderRow_TwoMatches(row) == MatchRow(row).matches >= 2

\* if matches >= 3
IsHeaderRow(row) == MatchRow(row).matches >= 3

\* The rows the header scan looks at.
ScannedRows(sheet) == 1..(IF Len(sheet) < max_row THEN Len(sheet) ELSE max_row)

\* The loop over the scanned rows from row_idx on, left at the first header
\* row; 0 when it runs out (header_row stays None).
RECURSIVE ScanFrom(_, _)
ScanFrom(sheet, row_idx) ==
    IF row_idx \notin ScannedRows(sheet) THEN 0
    ELSE IF IsHeaderRow(sheet[row_idx]) THEN row_idx
    ELSE ScanFrom(sheet, row_idx + 1)

\* header_row
FindHeaderRow(sheet) == ScanFrom(sheet, 1)

\* column_map.get(field, default)
ColumnOf(column_map, field) ==
    IF field \in DOMAIN column_map THEN column_map[field] ELSE DefaultColumn[field]

\* cell.value of a data cell: None for an empty cell
CellValue(cell) == IF cell = "" THEN NoneValue ELSE TextValue(cell)

\* The row cannot be turned into a Holding: a column beyond the width of
\* the sheet, or a percentage that parse_percentage raises on.
RowRaises(row, column_map) ==
    \/ \E f \in Fields : ColumnOf(column_map, f) > Len(row)
    \/ ParsePercentage(CellValue(row[ColumnOf(column_map, "change_pct")])).raised

\* The row is skipped: no instrument, a summary row, or a row that raises.
RowSkipped(row, column_map) ==
    LET instrument == CleanInstrumentName(row[ColumnOf(column_map, "instrument")])
    IN  \/ instrument = ""
        \/ \E keyword \in {"total", "sum", "pending"} : Contains(Lower(instrument), keyword)
        \/ RowRaises(row, column_map)

\* The Holding built from a data row.
RowHolding(row, column_map) ==
    LET number(f) == ParseNumber(CellValue(row[ColumnOf(column_map, f)])).value
    IN  [instrument |-> CleanInstrumentName(row[ColumnOf(column_map, "instrument")]),
         position |-> number("position"),
         last_price |-> number("last_price"),
         change_pct |-> ParsePercentage(CellValue(row[ColumnOf(column_map, "change_pct")])).value,
         cost_basis |-> number("cost_basis"),
         market_value |-> number("market_value"),
         avg_price |-> number("avg_price"),
         daily_pnl |-> number("daily_pnl"),
         unrealized_pnl |-> number("unrealized_pnl")]

\* The loop over the rows below the header.
RECURSIVE DataRows(_, _, _)
DataRows(sheet, r, column_map) ==
    IF r > Len(sheet) THEN <<>>
    ELSE IF RowSkipped(sheet[r], column_map) THEN DataRows(sheet, r + 1, column_map)
    ELSE <<RowHolding(sheet[r], column_map)>> \o DataRows(sheet, r + 1, column_map)

\* parse_excel_file, from the rows of the active sheet of an existing file;
\* header_row and column_map are kept with the result.
ParseSheet(sheet) ==
    LET header_row == FindHeaderRow(sheet)
    IN  IF header_row = 0
        THEN [raised |-> TRUE, error |-> "Could not find header row in Excel file",
              holdings |-> <<>>, header_row |-> 0, column_map |-> EmptyColumnMap]
        ELSE LET column_map == MatchRow(sheet[header_row]).column_map
             IN  [raised |-> FALSE, error |-> "",
                  holdings |-> DataRows(sheet, header_row + 1, column_map),
                  header_row |-> header_row, column_map |-> column_map]

\* Width of the sheets.
SheetWidth == 9

\* A row of the sheet from its first cells, the others empty.
SheetRow(cells) == [c \in 1..SheetWidth |-> IF c <= Len(cells) THEN cells[c] ELSE ""]

\* Rows above a header: an empty row, and a row that names two fields only.
LeadingRows == {SheetRow(<<>>), SheetRow(<<"Symbol", "Notes", "Qty">>)}

\* Rows of interest: headers of three and four fields, rows in which two
\* columns name the same field, rows in which a column names two fields,
\* and data rows.
SheetRows ==
    { SheetRow(<<"Instrument", "Position", "Last">>),
      SheetRow(<<"Qty", "Ticker", "Mkt Value", "Change %">>),
      SheetRow(<<"Last", "Last Price", "Qty">>),
      SheetRow(<<"Last Change", "Change", "Qty">>),
      SheetRow(<<"Last Change", "Last Change", "Qty">>),
      SheetRow(<<"AAPL", "5", "5.5", "5%", "5">>),
      SheetRow(<<"5", "MSFT", "5.5", "a%">>) }

\* Most rows above the rows of interest, and most rows of interest.
MaxLeadingRows == 10
MaxSheetRows == 2

\* The sheets: one kind of leading row repeated, then rows of interest.
Sheets ==
    {[r \in 1..n |-> lead] \o tail :
        n \in 0..MaxLeadingRows, lead \in LeadingRows, tail \in SeqsUpTo(SheetRows, MaxSheetRows)}

InitExcel ==
    /\ InitProgram
    /\ lastOp = "init"
    /\ parser_input \in Sheets
    /\ parser_result = <<>>

\* parse_excel_file called on one workbook
DoParseExcelFile ==
    /\ lastOp = "init"
    /\ lastOp' = "parse_excel_file"
    /\ parser_result' = ParseSheet(parser_input)
    /\ UNCHANGED <<parser_input, programVars>>

NextExcel == DoParseExcelFile

SpecExcel == InitExcel /\ [][NextExcel]_vars

-----------------------------------------------------------------------------
(* The merge on its own: add_or_update_holdings applied to every portfolio *)
(* and every incoming list over a small domain of holdings.               *)

MergeHoldingDomain ==
    {Classified(Holding(inst, q), c) : inst \in Instruments, q \in 1..2, c \in Classifications}

\* What a parser produces for a row that repeats a stored holding: the same
\* instrument and numeric columns, classification fields at their defaults.
Fresh(h) ==
    [h EXCEPT !.asset_type = "Unassigned", !.region = "Unassigned",
              !.target_allocation = 0, !.currency = "EUR"]

FreshAll(hs) == [i \in 1..Len(hs) |-> Fresh(hs[i])]

\* One call of add_or_update_holdings: the portfolio it is called on and the
\* list it is given are drawn here, the call is made by the action below.
InitMerge ==
    /\ holdings \in SeqsUpTo(MergeHoldingDomain, MaxHoldings)
    /\ incoming \in SeqsUpTo(MergeHoldingDomain, MaxIncoming)
    /\ free_cash = 0
    /\ mappings = EmptyMappings
    /\ exchange_rates = DEFAULT_EXCHANGE_RATES
    /\ portfolio_file = NoFile
    /\ settings_free_cash = 0
    /\ allocations = <<>>
    /\ stats_by_type = <<>>
    /\ stats_by_region = <<>>
    /\ lastOp = "init"
    /\ prev_holdings = <<>>
    /\ ops = 0
    /\ stats_detailed = <<>>
    /\ prev_mappings = EmptyMappings
    /\ InitCurrencyTab
    /\ InitSession
    /\ InitParser

\* portfolio.add_or_update_holdings(incoming)
DoAddOrUpdateHoldings ==
    /\ lastOp = "init"
    /\ holdings' = AddOrUpdateHoldings(holdings, incoming)
    /\ lastOp' = "add_or_update_holdings"
    /\ prev_holdings' = holdings
    /\ UNCHANGED <<incoming, free_cash, mappings, exchange_rates, portfolio_file,
                   settings_free_cash, allocations, stats_by_type, stats_by_region, ops,
                   stats_detailed, prev_mappings, rateVars, sessionVars, parserVars>>

NextMerge == DoAddOrUpdateHoldings

SpecMerge == InitMerge /\ [][NextMerge]_vars

-----------------------------------------------------------------------------
(* The classification store on its own: update_from_holdings called again *)
(* and again on arbitrary portfolios, starting from an empty store, and    *)
(* apply_mappings called on an arbitrary store and list of holdings.       *)

\* Classifications for the store: the baseline, the baseline with a target,
\* a deviation in the currency only and a full classification.
StoreClassifications ==
    { [asset_type |-> "Unassigned", region |-> "Unassigned", target_allocation |-> 0, currency |-> "EUR"],
      [asset_type |-> "Unassigned", region |-> "Unassigned", target_allocation |-> 40, currency |-> "EUR"],
      [asset_type |-> "Unassigned", region |-> "Unassigned", target_allocation |-> 0, currency |-> "GBP"],
      [asset_type |-> "Equity", region |-> "US", target_allocation |-> 40, currency |-> "USD"] }

StoreHoldingDomain ==
    {Classified(Holding(inst, 1), c) : inst \in Instruments, c \in StoreClassifications}

\* mappings_store.update_from_holdings(hs)
DoUpdateFromHoldings ==
    \E hs \in SeqsUpTo(StoreHoldingDomain, MaxHoldings) :
        /\ mappings' = UpdateFromHoldings(mappings, hs)
        /\ lastOp' = "update_from_holdings"
        /\ incoming' = hs
        /\ prev_mappings' = mappings
        /\ UNCHANGED <<holdings, free_cash, exchange_rates, portfolio_file,
                       settings_free_cash, allocations, stats_by_type, stats_by_region,
                       stats_detailed, prev_holdings, ops, rateVars, sessionVars, parserVars>>

NextStore == DoUpdateFromHoldings

SpecStore == Init /\ [][NextStore]_vars

\* What mappings.json may hold under an instrument: a well-formed entry, an
\* entry whose asset type is no member of AssetType and one whose region is
\* no member of Region.
StoredEntries ==
    { [asset_type |-> "Equity", region |-> "US", target_allocation |-> 40, currency |-> "USD"],
      [asset_type |-> "Stock", region |-> "US", target_allocation |-> 40, currency |-> "USD"],
      [asset_type |-> "Equity", region |-> "Mars", target_allocation |-> 40, currency |-> "USD"] }

StoredTables ==
    UNION {[insts -> StoredEntries] : insts \in SUBSET Instruments}

\* One call of apply_mappings: the store as loaded from mappings.json and the
\* holdings it is called on are drawn here.
InitApply ==
    /\ mappings \in StoredTables
    /\ holdings \in SeqsUpTo(MergeHoldingDomain, MaxHoldings)
    /\ free_cash = 0
    /\ exchange_rates = DEFAULT_EXCHANGE_RATES
    /\ portfolio_file = NoFile
    /\ settings_free_cash = 0
    /\ allocations = <<>>
    /\ stats_by_type = <<>>
    /\ stats_by_region = <<>>
    /\ lastOp = "init"
    /\ prev_holdings = <<>>
    /\ incoming = <<>>
    /\ ops = 0
    /\ stats_detailed = <<>>
    /\ prev_mappings = EmptyMappings
    /\ InitCurrencyTab
    /\ InitSession
    /\ InitParser

\* mappings_store.apply_mappings(holdings)
DoApplyMappings ==
    /\ lastOp = "init"
    /\ holdings' = ApplyMappings(mappings, holdings)
    /\ lastOp' = "apply_mappings"
    /\ prev_holdings' = holdings
    /\ UNCHANGED <<free_cash, mappings, exchange_rates, portfolio_file, settings_free_cash,
                   allocations, stats_by_type, stats_by_region, stats_detailed, incoming,
                   ops, prev_mappings, rateVars, sessionVars, parserVars>>

NextApply == DoApplyMappings

SpecApply == InitApply /\ [][NextApply]_vars

-----------------------------------------------------------------------------
(* Properties of the merge *)

Merged == lastOp = "add_or_update_holdings"

\* The portfolio before and after the k-th incoming holding is processed.
BeforeStep(k) == AddOrUpdateHoldings(prev_holdings, SubSeq(incoming, 1, k - 1))
AfterStep(k) == AddOrUpdateHoldings(prev_holdings, SubSeq(incoming, 1, k))

\* The incoming positions whose instrument is already stored, and the index
\* of the stored record each of them updates.
UpdatingSteps == {k \in 1..Len(incoming) : incoming[k].instrument \in InstrumentsOf(prev_holdings)}
StoredIndex(k) == ExistingInstruments(prev_holdings)[incoming[k].instrument]

\* C1: when an incoming holding's instrument already exists, the stored
\* holding's currency after the merge is the old record's currency, whatever
\* currency the incoming holding carries.
C1_CurrencyPreserved ==
    Merged =>
        /\ holdings = AfterStep(Len(incoming))
        /\ \A k \in UpdatingSteps :
              /\ AfterStep(k)[StoredIndex(k)].currency = BeforeStep(k)[StoredIndex(k)].currency
              /\ holdings[StoredIndex(k)].currency = prev_holdings[StoredIndex(k)].currency

C1_Witness ==
    /\ lastOp = "add_or_update_holdings"
    /\ \E k \in UpdatingSteps :
          /\ incoming[k].currency # prev_holdings[StoredIndex(k)].currency
          /\ holdings[StoredIndex(k)].currency = prev_holdings[StoredIndex(k)].currency
          /\ holdings[StoredIndex(k)].market_value # prev_holdings[StoredIndex(k)].market_value

\* C2: for an incoming holding whose instrument already exists, the merged
\* asset type is the old record's unless that was Unassigned, in which case
\* it is the incoming holding's; the region follows the same rule.
C2_TypeRegionRule ==
    Merged =>
        /\ holdings = AfterStep(Len(incoming))
        /\ \A k \in UpdatingSteps :
              LET old_h == BeforeStep(k)[StoredIndex(k)]
                  merged == AfterStep(k)[StoredIndex(k)]
              IN /\ merged.asset_type =
                        IF old_h.asset_type = "Unassigned" THEN incoming[k].asset_type
                        ELSE old_h.asset_type
                 /\ merged.region =
                        IF old_h.region = "Unassigned" THEN incoming[k].region
                        ELSE old_h.region

C2_Witness ==
    /\ lastOp = "add_or_update_holdings"
    /\ Len(incoming) = 1
    /\ 1 \in UpdatingSteps
    /\ prev_holdings[StoredIndex(1)].asset_type = "Unassigned"
    /\ prev_holdings[StoredIndex(1)].region = "EU"
    /\ incoming[1].asset_type = "Equity"
    /\ incoming[1].region = "US"
    /\ holdings[StoredIndex(1)].asset_type = "Equity"
    /\ holdings[StoredIndex(1)].region = "EU"

\* C3: for an incoming holding whose instrument already exists, the merged
\* target allocation is the old record's if that was > 0, otherwise the
\* incoming holding's.
C3_TargetRule ==
    Merged =>
        /\ holdings = AfterStep(Len(incoming))
        /\ \A k \in UpdatingSteps :
              LET old_h == BeforeStep(k)[StoredIndex(k)]
                  merged == AfterStep(k)[StoredIndex(k)]
              IN merged.target_allocation =
                     IF old_h.target_allocation > 0 THEN old_h.target_allocation
                     ELSE incoming[k].target_allocation

C3_Witness ==
    /\ lastOp = "add_or_update_holdings"
    /\ Len(incoming) = 1
    /\ 1 \in UpdatingSteps
    /\ prev_holdings[StoredIndex(1)].target_allocation = 0
    /\ incoming[1].target_allocation = 40
    /\ holdings[StoredIndex(1)].target_allocation = 40

\* C4: the merge leaves every stored holding whose instrument is not among
\* the incoming ones unchanged, keeps every stored holding at its index
\* (none is removed or reordered), and appends the incoming holdings with a
\* new instrument, as they are, at the end in incoming order.
IsNewInstrument(h) == h.instrument \notin InstrumentsOf(prev_holdings)

C4_MergeFrame ==
    Merged =>
        /\ Len(holdings) >= Len(prev_holdings)
        /\ \A i \in 1..Len(prev_holdings) :
              /\ holdings[i].instrument = prev_holdings[i].instrument
              /\ prev_holdings[i].instrument \notin InstrumentsOf(incoming)
                    => holdings[i] = prev_holdings[i]
        /\ SubSeq(holdings, Len(prev_holdings) + 1, Len(holdings))
              = SelectSeq(incoming, IsNewInstrument)

C4_Witness ==
    /\ lastOp = "add_or_update_holdings"
    /\ Len(prev_holdings) = 1
    /\ Len(incoming) = 2
    /\ incoming[1].instrument # prev_holdings[1].instrument
    /\ incoming[2].instrument = prev_holdings[1].instrument
    /\ incoming[2].market_value # prev_holdings[1].market_value
    /\ Len(holdings) = 2
    /\ holdings[2] = incoming[1]
    /\ holdings[1].market_value = incoming[2].market_value

\* C5: merging an unchanged re-import of the stored holdings yields a
\* portfolio equal to the original in every field and in order.
C5_MergeIdempotent ==
    (Merged /\ incoming = FreshAll(prev_holdings)) => holdings = prev_holdings

-----------------------------------------------------------------------------
(* Properties of the application *)

\* C6: the instrument is a unique key: starting from an empty portfolio, no
\* two holdings of the portfolio ever have the same instrument.
C6_UniqueInstruments ==
    \A i, j \in 1..Len(holdings) :
        i # j => holdings[i].instrument # holdings[j].instrument

\* C7: a confirmed import of instruments already in the portfolio leaves the
\* asset type, region, target allocation and currency of each such holding
\* exactly as the user last left them.  Stated for the imports where neither
\* a repeated instrument nor a negative target is involved.
PlainImport ==
    /\ \A i, j \in 1..Len(prev_holdings) :
          i # j => prev_holdings[i].instrument # prev_holdings[j].instrument
    /\ \A i, j \in 1..Len(incoming) :
          i # j => incoming[i].instrument # incoming[j].instrument
    /\ \A i \in 1..Len(prev_holdings) : prev_holdings[i].target_allocation >= 0

C7_ImportKeepsCuratedData ==
    (lastOp = "on_data_confirmed" /\ PlainImport) =>
        \A i \in 1..Len(prev_holdings) :
            prev_holdings[i].instrument \in InstrumentsOf(incoming)
                => Classification(holdings[i]) = Classification(prev_holdings[i])

-----------------------------------------------------------------------------
(* The calculator on its own: one call on a portfolio, free cash and rate *)
(* table drawn from small domains.                                        *)

CalcHoldingDomain ==
    {Classified(Holding(inst, q), c) : inst \in Instruments, q \in 1..3, c \in Classifications}

RateTables ==
    { DEFAULT_EXCHANGE_RATES,
      [DEFAULT_EXCHANGE_RATES EXCEPT !["USD"] = RZero],
      [c \in {"EUR", "USD"} |-> DEFAULT_EXCHANGE_RATES[c]],
      [DEFAULT_EXCHANGE_RATES EXCEPT !["EUR"] = Rat(2, 1)] }

FreeCashChoices == {0, 50}

InitCalc ==
    /\ holdings \in SeqsUpTo(CalcHoldingDomain, MaxHoldings)
    /\ free_cash \in FreeCashChoices
    /\ exchange_rates \in RateTables
    /\ mappings = EmptyMappings
    /\ portfolio_file = NoFile
    /\ settings_free_cash = 0
    /\ allocations = <<>>
    /\ stats_by_type = <<>>
    /\ stats_by_region = <<>>
    /\ lastOp = "init"
    /\ prev_holdings = <<>>
    /\ incoming = <<>>
    /\ ops = 0
    /\ stats_detailed = <<>>
    /\ prev_mappings = EmptyMappings
    /\ InitCurrencyTab
    /\ InitSession
    /\ InitParser

\* PortfolioCalculator.get_allocations
GetAllocations ==
    /\ lastOp = "init"
    /\ allocations' = CalculateAllocations(exchange_rates, holdings, free_cash)
    /\ lastOp' = "get_allocations"
    /\ UNCHANGED <<holdings, free_cash, mappings, exchange_rates, portfolio_file,
                   settings_free_cash, stats_by_type, stats_by_region, stats_detailed,
                   prev_holdings, incoming, ops, prev_mappings, rateVars, sessionVars,
                   parserVars>>

\* PortfolioCalculator.get_stats_by_type
GetStatsByType ==
    /\ lastOp = "init"
    /\ stats_by_type' = CalculateStatsByType(exchange_rates, holdings, free_cash)
    /\ lastOp' = "get_stats_by_type"
    /\ UNCHANGED <<holdings, free_cash, mappings, exchange_rates, portfolio_file,
                   settings_free_cash, allocations, stats_by_region, stats_detailed,
                   prev_holdings, incoming, ops, prev_mappings, rateVars, sessionVars,
                   parserVars>>

\* PortfolioCalculator.get_stats_by_region
GetStatsByRegion ==
    /\ lastOp = "init"
    /\ stats_by_region' = CalculateStatsByRegion(exchange_rates, holdings, free_cash)
    /\ lastOp' = "get_stats_by_region"
    /\ UNCHANGED <<holdings, free_cash, mappings, exchange_rates, portfolio_file,
                   settings_free_cash, allocations, stats_by_type, stats_detailed,
                   prev_holdings, incoming, ops, prev_mappings, rateVars, sessionVars,
                   parserVars>>

\* PortfolioCalculator.get_stats_detailed
GetStatsDetailed ==
    /\ lastOp = "init"
    /\ stats_detailed' = CalculateStatsDetailed(exchange_rates, holdings, free_cash)
    /\ lastOp' = "get_stats_detailed"
    /\ UNCHANGED <<holdings, free_cash, mappings, exchange_rates, portfolio_file,
                   settings_free_cash, allocations, stats_by_type, stats_by_region,
                   prev_holdings, incoming, ops, prev_mappings, rateVars, sessionVars,
                   parserVars>>

NextCalc == GetAllocations \/ GetStatsByType \/ GetStatsByRegion \/ GetStatsDetailed

SpecCalc == InitCalc /\ [][NextCalc]_vars

-----------------------------------------------------------------------------
(* Properties of the calculator *)

Total == TotalInvestedEur(exchange_rates, holdings)
TotalCash == TotalWithCashEur(exchange_rates, holdings, free_cash)

\* C8: the invested EUR values of the asset-type categories add up to
\* totalInvestedEur, and so do those of the region categories; hence the
\* current shares returned for each grouping add up to 1 when the total is
\* positive.
C8_CategoriesSumToTotal ==
    /\ lastOp = "get_stats_by_type" =>
          /\ RSum([k \in 1..Len(AssetType) |->
                      SumValueEur(exchange_rates, ByType(holdings, AssetType[k]))]) = Total
          /\ RPos(Total) =>
                RSum([k \in 1..Len(stats_by_type) |-> stats_by_type[k].current]) = ROne
    /\ lastOp = "get_stats_by_region" =>
          /\ RSum([k \in 1..Len(Region) |->
                      SumValueEur(exchange_rates, ByRegion(holdings, Region[k]))]) = Total
          /\ RPos(Total) =>
                RSum([k \in 1..Len(stats_by_region) |-> stats_by_region[k].current]) = ROne

C8_Witness ==
    /\ lastOp = "get_stats_by_type"
    /\ Len(holdings) = 2
    /\ holdings[1].asset_type = "Equity"
    /\ holdings[1].currency = "USD"
    /\ exchange_rates["USD"] = Rat(109, 100)
    /\ holdings[2].asset_type = "Unassigned"
    /\ holdings[1].market_value = 100
    /\ holdings[2].market_value = 50
    /\ stats_by_type[1].current # RZero
    /\ stats_by_type[6].current # RZero
    /\ stats_by_type[1].current # stats_by_type[6].current

\* C9: whenever totalWithCashEur > 0, allocationWithCash summed over the
\* holdings plus freeCash / totalWithCashEur equals 1.
C9_SharesWithCashSumToOne ==
    (lastOp = "get_allocations" /\ RPos(TotalCash)) =>
        RAdd(RSum([i \in 1..Len(allocations) |-> allocations[i].allocation_with_cash]),
             RDiv(RInt(free_cash), TotalCash)) = ROne

C9_Witness ==
    /\ lastOp = "get_allocations"
    /\ RPos(TotalCash)
    /\ free_cash = 50
    /\ Len(allocations) = 2
    /\ holdings[1].currency = "USD"
    /\ exchange_rates["USD"] = Rat(109, 100)
    /\ allocations[1].allocation_with_cash # RZero
    /\ allocations[2].allocation_with_cash # RZero

\* C10: for every holding, allocationPct is marketValueEur / totalInvestedEur
\* whenever totalInvestedEur is not 0 and 0 when it is 0, allocationWithCash
\* is marketValueEur / totalWithCashEur whenever totalWithCashEur is not 0 and
\* 0 when it is 0, and diffWithTarget is targetAllocation - allocationWithCash.
C10_AllocationFormulas ==
    lastOp = "get_allocations" =>
        /\ Len(allocations) = Len(holdings)
        /\ \A i \in 1..Len(holdings) :
              LET market_value_eur == MarketValueEur(exchange_rates, holdings[i]) IN
              /\ allocations[i].allocation_pct =
                    IF Total # RZero THEN RDiv(market_value_eur, Total) ELSE RZero
              /\ allocations[i].allocation_with_cash =
                    IF TotalCash # RZero THEN RDiv(market_value_eur, TotalCash) ELSE RZero
              /\ allocations[i].diff_with_target =
                    RSub(Rat(holdings[i].target_allocation, 100),
                         allocations[i].allocation_with_cash)

\* Position of a value in an enumeration.
Pos(enum, x) == CHOOSE i \in 1..Len(enum) : enum[i] = x

\* Place of an entry's (asset_type, region) pair in the cross product, asset
\* type first.
CrossProductRank(e) ==
    (Pos(AssetType, e.asset_type) - 1) * Len(Region) + Pos(Region, e.region)

\* C11: calculate_stats_detailed returns exactly one entry for each
\* (assetType, region) pair that has at least one holding, except that the
\* Unassigned x Unassigned pair is never returned; no pair without holdings is
\* returned, and the entries are in cross-product (type-major) declaration
\* order.
C11_DetailedEntries ==
    lastOp = "get_stats_detailed" =>
        /\ \A t \in Range(AssetType), r \in Range(Region) :
              Cardinality({k \in 1..Len(stats_detailed) :
                              stats_detailed[k].asset_type = t /\ stats_detailed[k].region = r})
                = IF /\ ~(t = "Unassigned" /\ r = "Unassigned")
                     /\ \E i \in 1..Len(holdings) :
                           holdings[i].asset_type = t /\ holdings[i].region = r
                  THEN 1 ELSE 0
        /\ \A i, j \in 1..Len(stats_detailed) :
              i < j => CrossProductRank(stats_detailed[i]) < CrossProductRank(stats_detailed[j])

C11_Witness ==
    /\ lastOp = "get_stats_detailed"
    /\ Len(holdings) = 2
    /\ holdings[1].asset_type = "Unassigned"
    /\ holdings[1].region = "Unassigned"
    /\ holdings[2].asset_type = "Equity"
    /\ holdings[2].region = "US"
    /\ Len(stats_detailed) = 1
    /\ stats_detailed[1].asset_type = "Equity"
    /\ stats_detailed[1].region = "US"

\* C12: convert_to_eur(amount, currency) returns amount unchanged when the
\* currency is EUR, when the stored rate of the currency is exactly zero and
\* when the currency is not in the rate table; in every other case it returns
\* amount / rate(currency); the result is always a well-defined number (no
\* division by zero).
C12_ConvertToEur ==
    lastOp = "get_allocations" =>
        \A i \in 1..Len(holdings) :
            LET amount == RInt(holdings[i].market_value)
                currency == holdings[i].currency
                result == allocations[i].market_value_eur
            IN /\ result.d > 0
               /\ result =
                    IF \/ currency = "EUR"
                       \/ currency \notin DOMAIN exchange_rates
                       \/ exchange_rates[currency] = RZero
                    THEN amount
                    ELSE RDiv(amount, exchange_rates[currency])

C12_Witness ==
    /\ lastOp = "get_allocations"
    /\ Len(holdings) = 2
    /\ holdings[1].currency = "USD"
    /\ exchange_rates["USD"] = RZero
    /\ allocations[1].market_value_eur = RInt(holdings[1].market_value)
    /\ holdings[2].currency = "GBP"
    /\ exchange_rates["GBP"] = Rat(85, 100)
    /\ allocations[2].market_value_eur # RInt(holdings[2].market_value)

-----------------------------------------------------------------------------
(* Properties of the exchange rates and of the rate refresh *)

\* C13: EUR always maps to 1.0 and rejects modification: in every state
\* reachable through set_exchange_rate, the merge of fetched rates and Load
\* Data the rate table's EUR entry is 1.0, and a request to set the EUR rate
\* leaves the rate table unchanged.
C13_EurFixed ==
    /\ exchange_rates["EUR"] = ROne
    /\ (lastOp = "on_rate_changed" /\ incoming[1].currency = "EUR")
          => exchange_rates = prev_settings.exchange_rates

\* The completion the handler _on_fetch_finished was given.
Completion == incoming[1]
FailedRefreshHandled == lastOp = "_on_fetch_finished" /\ Completion.error # ""
GoodRefreshHandled == lastOp = "_on_fetch_finished" /\ Completion.error = ""

\* A step of the refresh machinery: the request, the thread's run and exit,
\* the delivery of a queued signal.
RefreshStep ==
    \/ lastOp' = "on_update_rates_from_internet" /\ ops' # ops
    \/ threads' # threads
    \/ events' # events

\* The delivery of a completion that carries no error.
SuccessDelivery ==
    /\ Len(events') < Len(events)
    /\ Head(events).signal = "fetch_finished"
    /\ Head(events).error = ""

C15_SuccessfulRefreshMerges ==
    GoodRefreshHandled =>
        /\ DOMAIN prev_settings.exchange_rates \subseteq DOMAIN exchange_rates
        /\ \A c \in DOMAIN Completion.rates : exchange_rates[c] = Completion.rates[c]
        /\ \A c \in DOMAIN prev_settings.exchange_rates \ DOMAIN Completion.rates :
              exchange_rates[c] = prev_settings.exchange_rates[c]

C15_Witness ==
    /\ GoodRefreshHandled
    /\ DOMAIN Completion.rates = {"USD"}
    /\ prev_settings.exchange_rates["USD"] # FetchedRate
    /\ exchange_rates["USD"] = FetchedRate
    /\ "JPY" \notin Range(threads[Completion.thread].currencies)
    /\ "JPY" \in DOMAIN exchange_rates
    /\ exchange_rates["JPY"] = NewCurrencyRate
    /\ exchange_rates["GBP"] = DEFAULT_EXCHANGE_RATES["GBP"]

\* The fetch threads that are running.
InFlight(ts) == {t \in 1..Len(ts) : ts[t].state = "running"}

\* C16: at most one rate refresh is in flight in every reachable state; a
\* refresh request issued while a fetch thread is running starts no second
\* fetch, and none is started later on its behalf (a thread is only ever
\* created by a request that finds no fetch running).
C16_OneRefreshInFlight ==
    /\ [](Cardinality(InFlight(threads)) <= 1)
    /\ [][Len(threads') # Len(threads) =>
            /\ InFlight(threads) = {}
            /\ lastOp' = "on_update_rates_from_internet"
            /\ ops' = ops + 1
            /\ Len(threads') = Len(threads) + 1]_vars

C16_Witness ==
    /\ lastOp = "on_update_rates_from_internet"
    /\ InFlight(incoming[1].threads) = {1}
    /\ threads = incoming[1].threads
    /\ fetch_thread = 1

\* C17: every started rate refresh reports back through exactly one
\* completion event carrying (rates or empty, date or empty, error or
\* empty), rates and error never both non-empty, and after it the in-flight
\* guard is released.  Stated for the threads that have stopped running:
\* each of them has emitted exactly one completion.
C17_OneCompletionPerRefresh ==
    /\ \A t \in 1..Len(threads) :
          /\ threads[t].emitted <= 1
          /\ threads[t].state # "running" => threads[t].emitted = 1
    /\ \A k \in 1..Len(events) :
          events[k].signal = "fetch_finished"
              => ~(events[k].rates # EmptyRates /\ events[k].error # "")

-----------------------------------------------------------------------------
(* Properties of the classification store *)

\* C18: starting from an empty classification store, after any sequence of
\* saves (update_from_holdings over arbitrary portfolios) every entry of the
\* store has at least one non-default classification field: asset type not
\* Unassigned, region not Unassigned, target allocation not 0 or currency
\* not EUR.
C18_NoDefaultEntries ==
    \A inst \in DOMAIN mappings :
        \/ mappings[inst].asset_type # "Unassigned"
        \/ mappings[inst].region # "Unassigned"
        \/ mappings[inst].target_allocation # 0
        \/ mappings[inst].currency # "EUR"

C18_Witness ==
    /\ lastOp = "update_from_holdings"
    /\ Len(incoming) = 2
    /\ incoming[1].instrument = "A"
    /\ Classification(incoming[1]) =
          [asset_type |-> "Unassigned", region |-> "Unassigned",
           target_allocation |-> 0, currency |-> "EUR"]
    /\ incoming[2].instrument = "B"
    /\ incoming[2].currency = "GBP"
    /\ prev_mappings = EmptyMappings
    /\ DOMAIN mappings = {"B"}

\* The holdings of the list given to update_from_holdings that carry the
\* instrument and deviate from Unassigned / Unassigned / EUR.
Deviating(inst) ==
    {i \in 1..Len(incoming) :
        /\ incoming[i].instrument = inst
        /\ \/ incoming[i].asset_type # "Unassigned"
           \/ incoming[i].region # "Unassigned"
           \/ incoming[i].currency # "EUR"}

Last(S) == CHOOSE i \in S : \A j \in S : j <= i

\* C19: update_from_holdings persists, for each holding whose asset type,
\* region or currency deviates from Unassigned / Unassigned / EUR, that
\* holding's current (asset type, region, target allocation, currency),
\* overwriting any prior entry of the instrument; it writes nothing for a
\* holding at the baseline and leaves the entries of all other instruments
\* unchanged (no entry is ever deleted).
C19_UpdateFromHoldings ==
    lastOp = "update_from_holdings" =>
        /\ DOMAIN mappings =
              DOMAIN prev_mappings \cup {inst \in Instruments : Deviating(inst) # {}}
        /\ \A inst \in DOMAIN mappings :
              mappings[inst] =
                  IF Deviating(inst) # {}
                  THEN Classification(incoming[Last(Deviating(inst))])
                  ELSE prev_mappings[inst]

C19_Witness ==
    /\ lastOp = "update_from_holdings"
    /\ DOMAIN prev_mappings = {"A", "B"}
    /\ prev_mappings["A"].asset_type = "Equity"
    /\ Len(incoming) = 2
    /\ incoming[1].instrument = "A"
    /\ incoming[1].asset_type = "Unassigned"
    /\ incoming[1].currency = "GBP"
    /\ incoming[2].instrument = "A"
    /\ incoming[2].target_allocation = 40
    /\ incoming[2].currency = "EUR"
    /\ incoming[2].asset_type = "Unassigned"
    /\ mappings["A"] = Classification(incoming[1])
    /\ mappings["B"] = prev_mappings["B"]

\* A stored mapping both of whose enum values parse.
WellFormed(mapping) ==
    mapping.asset_type \in Range(AssetType) /\ mapping.region \in Range(Region)

\* C20: apply_mappings overwrites asset type, region, target allocation and
\* currency of every holding that has a well-formed stored mapping and
\* leaves holdings without a mapping unchanged; a stored mapping with an
\* unparseable enum value is ignored for that holding, which keeps all four
\* of its prior classification fields, and the remaining holdings of the
\* batch are still processed.
C20_ApplyMappings ==
    lastOp = "apply_mappings" =>
        /\ Len(holdings) = Len(prev_holdings)
        /\ \A i \in 1..Len(holdings) :
              LET inst == prev_holdings[i].instrument IN
              holdings[i] =
                  IF inst \in DOMAIN mappings /\ WellFormed(mappings[inst])
                  THEN Classified(prev_holdings[i], mappings[inst])
                  ELSE prev_holdings[i]

-----------------------------------------------------------------------------
(* Properties of a session: snapshots, start-up, imports and Reset *)

\* The holdings a snapshot file describes.
SnapshotHoldings(file) == [i \in 1..Len(file.holdings) |-> FromDict(file.holdings[i])]

\* Load Data has just loaded the snapshot that Save Data wrote.
LoadedExport ==
    /\ lastOp = "on_load_data"
    /\ outcome = "loaded"
    /\ export_file # NoFile
    /\ incoming = <<export_file>>

\* C21: round trip: after the snapshot written by Save Data has been loaded,
\* in whatever state the application was by then, the holdings (in order,
\* every field), the free cash, the classification mapping, the currency
\* list and the exchange-rate table are those of the moment of the export.
C21_SnapshotRoundTrip ==
    LoadedExport =>
        /\ holdings = SnapshotHoldings(export_file)
        /\ free_cash = export_file.free_cash
        /\ mappings = export_file.mappings
        /\ currencies = export_file.settings.currencies
        /\ exchange_rates = export_file.settings.exchange_rates

\* Load Data was given a JSON file whose settings section is well formed.
LoadedJson ==
    /\ lastOp = "on_load_data"
    /\ incoming[1].json_ok
    /\ incoming[1].settings.rates_ok

\* C22: a holding record with an asset type or region string that is no
\* member of the enum does not abort the load: the load completes, every
\* record of the file becomes a holding with its instrument and numeric
\* fields, and the field that did not parse is left at Unassigned.
C22_UnparseableFieldIgnored ==
    LoadedJson =>
        LET records == incoming[1].holdings IN
        /\ outcome = "loaded"
        /\ Len(holdings) = Len(records)
        /\ \A i \in 1..Len(records) :
              /\ holdings[i].instrument = records[i].instrument
              /\ holdings[i].market_value = records[i].market_value
              /\ records[i].asset_type \notin Range(AssetType)
                    => holdings[i].asset_type = "Unassigned"
              /\ records[i].region \notin Range(Region)
                    => holdings[i].region = "Unassigned"

\* The handler that ran last changed the portfolio and ran to its end.
EditHandlers ==
    {"on_type_changed", "on_region_changed", "on_currency_changed", "on_cell_changed",
     "delete_holding", "on_free_cash_changed"}

CompletedMutation ==
    \/ lastOp \in EditHandlers
    \/ lastOp = "process_import_file" /\ outcome = "review confirmed"
    \/ lastOp = "on_load_data" /\ outcome = "loaded"
    \/ lastOp = "on_reset_data" /\ outcome = "reset"

\* C23: once a handler that changes the portfolio (cell edit, delete, free
\* cash, type / region / currency change, confirmed import, Load Data,
\* Reset) has completed, portfolio.json holds exactly the holdings and the
\* free cash that are in memory and the free cash of the settings equals
\* the free cash in memory.
C23_PersistedAfterMutation ==
    CompletedMutation =>
        /\ portfolio_file = PortfolioData(holdings, free_cash)
        /\ settings_free_cash = free_cash

C23_Witness ==
    /\ lastOp = "on_free_cash_changed"
    /\ holdings # <<>>
    /\ free_cash = 50
    /\ portfolio_file = PortfolioData(holdings, 50)
    /\ settings_free_cash = 50

\* What the portfolio, the classification store and the persisted files hold.
StoredState == <<holdings, free_cash, mappings, portfolio_file, settings_free_cash>>

\* A step that is one call of process_import_file.
ImportStep == lastOp' = "process_import_file" /\ ops' = ops + 1

\* C24: an import attempt ends as a hard failure (an error box, nothing
\* parsed), as no-data-found (its own box, nothing parsed) or in the review
\* of a non-empty list of rows, which is cancelled or confirmed; the rows
\* reach the merge only when the review is confirmed, and in every other
\* outcome the portfolio, the classification store and the persisted files
\* are what they were before the attempt.
C24_ImportOutcomes ==
    /\ [](lastOp = "process_import_file" =>
            \/ /\ outcome = "hard failure"
               /\ shown_error \in {"Import Error", "Tesseract Not Found"}
               /\ incoming = <<>>
            \/ /\ outcome = "no data found"
               /\ shown_error = "No Data Found"
               /\ incoming = <<>>
            \/ /\ outcome \in {"review cancelled", "review confirmed"}
               /\ incoming # <<>>)
    /\ [][ImportStep =>
            IF outcome' = "review confirmed"
            THEN holdings' = AddOrUpdateHoldings(holdings, ApplyMappings(mappings, incoming'))
            ELSE StoredState' = StoredState]_vars

C24_Witness ==
    /\ lastOp = "process_import_file"
    /\ outcome = "review cancelled"
    /\ holdings # <<>>
    /\ incoming[1].instrument = holdings[1].instrument
    /\ incoming[1].market_value # holdings[1].market_value
    /\ portfolio_file = PortfolioData(holdings, free_cash)

\* A step that is one call of on_reset_data.
ResetStep == lastOp' = "on_reset_data" /\ ops' = ops + 1

\* Both confirmations were given: Yes, then OK on a text that reads DELETE.
BothConfirmed(answer) ==
    /\ answer.reply = "Yes"
    /\ answer.ok
    /\ answer.text \in {"DELETE", " delete "}

\* C28: Reset acts only after both confirmations (Yes, then typing DELETE);
\* it empties the holdings, sets free cash to 0 and persists that, and leaves
\* the classification store, the currency list and the exchange rates as
\* they were, so that an instrument imported into the emptied portfolio takes
\* its stored classification; a declined confirmation changes nothing.
C28_ResetKeepsClassifications ==
    /\ [][ResetStep =>
            IF BothConfirmed(incoming'[1])
            THEN /\ holdings' = <<>>
                 /\ free_cash' = 0
                 /\ portfolio_file' = PortfolioData(<<>>, 0)
                 /\ settings_free_cash' = 0
                 /\ mappings' = mappings
                 /\ currencies' = currencies
                 /\ exchange_rates' = exchange_rates
            ELSE /\ StoredState' = StoredState
                 /\ currencies' = currencies
                 /\ exchange_rates' = exchange_rates]_vars
    /\ [][(ImportStep /\ outcome' = "review confirmed" /\ holdings = <<>>) =>
            \A i \in 1..Len(holdings') :
                holdings'[i].instrument \in DOMAIN mappings =>
                    Classification(holdings'[i]) = mappings[holdings'[i].instrument]]_vars

\* A confirmed Reset of a portfolio with a classified holding and free cash:
\* the portfolio is empty and stored so, the classification is still there.
C28_Witness ==
    /\ lastOp = "on_reset_data"
    /\ outcome = "reset"
    /\ incoming[1].text = " delete "
    /\ prev_holdings # <<>>
    /\ prev_holdings[1].asset_type = "Equity"
    /\ holdings = <<>>
    /\ portfolio_file = PortfolioData(<<>>, 0)
    /\ prev_holdings[1].instrument \in DOMAIN mappings
    /\ mappings[prev_holdings[1].instrument].asset_type = "Equity"

\* A step that closes the application and starts it again.
RestartStep == lastOp' = "__init__" /\ ops' = ops + 1

\* C29: closing and restarting the application gives back the portfolio of
\* the last save: every field of every holding, and the free cash.
C29_RestartRoundTrip ==
    [][RestartStep => (holdings' = holdings /\ free_cash' = free_cash)]_vars

\* A step that is one call of on_load_data.
LoadStep == lastOp' = "on_load_data" /\ ops' = ops + 1

\* C30: a Load Data that fails leaves the portfolio, the free cash, the
\* currency list, the exchange rates and the classification store exactly
\* as they were before the load was attempted.
C30_LoadAllOrNothing ==
    [][(LoadStep /\ outcome' = "failed") =>
        /\ holdings' = holdings
        /\ free_cash' = free_cash
        /\ currencies' = currencies
        /\ exchange_rates' = exchange_rates
        /\ mappings' = mappings]_vars

-----------------------------------------------------------------------------
(* Properties of the parsers *)

\* What the contract gives for one cell: a number as it is, 0 for None and
\* for a missing-value text, the numeric part over 100 for a text ending in
\* '%', the number for a numeric text, and 0 for every other text.
ContractPercentage(value) ==
    IF value.kind = "none" THEN RZero
    ELSE IF value.kind = "number" THEN value.num
    ELSE LET s == Strip(value.text)
             part == Float(SubSeq(s, 1, Len(s) - 1))
         IN  IF s \in MissingValueTexts THEN RZero
             ELSE IF EndsWith(s, "%")
             THEN (IF part.raised THEN RZero ELSE RDiv(part.value, RInt(100)))
             ELSE Float(s).value

\* C25: parse_percentage never raises; a number passes through, a dash, em
\* dash, double dash or empty text gives 0, a text ending in '%' gives its
\* numeric part over 100, and a text that cannot be parsed, with or without
\* a trailing '%', gives 0.
C25_ParsePercentageTotal ==
    lastOp = "parse_percentage" =>
        /\ ~parser_result.raised
        /\ parser_result.value = ContractPercentage(parser_input)

\* C27: in the OCR line parser a part that contains '%' yields what
\* parse_percentage yields for that text ("5%" gives 1/20), and a part
\* without '%' yields what parse_number yields.
C27_OcrPercentPart ==
    (lastOp = "parse_ocr_line" /\ parser_result.found) =>
        LET part == OcrSplit(parser_input)[4]
            asPercentage == ParsePercentage(TextValue(part))
        IN  IF Contains(part, "%")
            THEN asPercentage.raised \/ parser_result.change_pct = asPercentage.value
            ELSE parser_result.change_pct = ParseNumber(TextValue(part)).value

\* The fields of which some cell of the row contains an alias.
RecognisableFields(row) ==
    LET texts == [c \in 1..Len(row) |-> HeaderText(row[c])]
    IN  {column_aliases[k].field : k \in
            {j \in 1..Len(column_aliases) :
                \E c \in 1..Len(row) : AliasesIn(j, texts[c]) # {}}}

\* The number of columns of the r-th row that claim a field.
Matched(sheet, r) == MatchRow(sheet[r]).matches

\* C26: the header scan looks at the first 10 rows in order and accepts the
\* first row in which at least 3 distinct fields are matched by alias, each
\* field claimed by one column; a row in which only 2 fields can be
\* recognised is never accepted; when no row among the first 10 qualifies
\* the parse raises and returns no holdings.
C26_HeaderDetection ==
    lastOp = "parse_excel_file" =>
        LET sheet == parser_input
            header_row == parser_result.header_row
            column_map == parser_result.column_map
        IN  IF parser_result.raised
            THEN /\ parser_result.holdings = <<>>
                 /\ parser_result.error = "Could not find header row in Excel file"
                 /\ \A r \in 1..Len(sheet) : r <= 10 => Matched(sheet, r) < 3
            ELSE /\ header_row \in 1..10
                 /\ header_row <= Len(sheet)
                 /\ \A r \in 1..(header_row - 1) : Matched(sheet, r) < 3
                 /\ Cardinality(DOMAIN column_map) >= 3
                 /\ Cardinality(DOMAIN column_map) = Matched(sheet, header_row)
                 /\ \A f, g \in DOMAIN column_map : f # g => column_map[f] # column_map[g]
                 /\ \A f \in DOMAIN column_map :
                        \E k \in 1..Len(column_aliases) :
                            /\ column_aliases[k].field = f
                            /\ AliasesIn(k, HeaderText(sheet[header_row][column_map[f]])) # {}
                 /\ ~(Cardinality(RecognisableFields(sheet[header_row])) <= 2)

\* A header in the tenth row, below nine rows that name two fields each,
\* and a holding read from the row under it.
C26_Witness ==
    /\ lastOp = "parse_excel_file"
    /\ ~parser_result.raised
    /\ parser_result.header_row = 10
    /\ \A r \in 1..9 : Cardinality(RecognisableFields(parser_input[r])) = 2
    /\ Len(parser_result.holdings) = 1

====
